---- MODULE Spec2Model ----
(***************************************************************************)
(* A model of the concurrency core of stack-overflow-relay:                *)
(*   - the circuit breaker            (src/src/error.rs)                   *)
(*   - the poll spawner and its workers (src/src/poll_spawner.rs)          *)
(*   - the process boundary            (src/src/main.rs)                   *)
(*   - the generated actor harness     (src/alictor/alictor-derive)        *)
(* Four specifications share the module: BreakerSpec drives Breaker::check *)
(* alone, Spec drives the poll spawner under registrations that replace    *)
(* one another, WorkerSpec drives it with one registration per account and *)
(* transient failures, and ActorSpec drives one harness-generated actor.   *)
(***************************************************************************)
EXTENDS Integers, Sequences, FiniteSets, TLC

----------------------------------------------------------------------------
(* Bounds of the model *)

\* outcomes fed to the breaker under BreakerSpec
MaxFeeds == 12
\* registrations in flight or turned into workers over one run of Spec
MaxRegs == 2
\* longest list given to start_many
MaxMany == 2
\* calls one caller makes to the harness actor under ActorSpec
MaxCalls == 2
\* pairs the handles submit over one run of BackpressureSpec
MaxBoot == 12
\* transient failures in a row a worker is given under ReplaceSpec
MaxRun == 2
\* restarts of the process under RegisterSpec
MaxRestarts == 1
\* requests on the session over one run of SessionSpec
MaxRequests == 4
\* begin requests among them: the oauth states generated
MaxBegins == 2
\* items the source comes to hold under DeliverySpec
MaxItems == 3
\* transient failures the source and the sink produce over one run of DeliverySpec
MaxFaults == 2

(* Program constants *)

\* ensure!(self.failure_count < 10, ..)
BreakerThreshold == 10
\* mpsc::channel(10)
ChannelBuffer == 10

----------------------------------------------------------------------------
(* Values *)

Accounts == {"K1", "K2"}
Tokens == {"c1", "c2"}
\* the registrations the callers submit: K1 under two credentials, K2 under one
Pair == {<<"K1", "c1">>, <<"K1", "c2">>, <<"K2", "c1">>}
Handles == {"h1", "h2"}
Workers == 1 .. MaxRegs

\* the tag a collaborator puts on its error
Sources == {"transient", "fatal"}

\* Result<(), Error> of one fetch-and-forward attempt, as <<variant, source>>
OkResult == <<"Ok", "-">>
NoError == <<"None", "-">>
UnableToGetUnreadNotifications(s) == <<"UnableToGetUnreadNotifications", s>>
UnableToSendNotifications(s) == <<"UnableToSendNotifications", s>>
TooManyTransientFailures == <<"TooManyTransientFailures", "BreakerError">>
AttemptErrors ==
  {UnableToGetUnreadNotifications(s) : s \in Sources}
    \cup {UnableToSendNotifications(s) : s \in Sources}
AttemptResults == {OkResult} \cup AttemptErrors

\* impl IsTransient for Error
is_transient(e) ==
  CASE e[1] = "ChildFailed" -> FALSE
    [] e[1] = "UnableToGetUnreadNotifications" -> e[2] = "transient"
    [] e[1] = "UnableToSendNotifications" -> e[2] = "transient"
    [] e[1] = "TooManyTransientFailures" -> FALSE
    [] OTHER -> FALSE

----------------------------------------------------------------------------
(* Breaker::check.  The return value Result<Option<Result<T, E>>, BreakerError>
   is [ret, val]:  Ok(Some(r)) is ret = "Ran" with val = r,  Ok(None) is
   ret = "Suppressed",  Err(BreakerError) is ret = "Tripped". *)

\* mutant: the threshold test lets the tenth failure through
check_off_by_one(fc, r) ==
  IF r = OkResult
    THEN [failure_count |-> 0, ret |-> "Ran", val |-> r]
    ELSE IF is_transient(r)
      THEN IF fc + 1 <= BreakerThreshold
             THEN [failure_count |-> fc + 1, ret |-> "Suppressed", val |-> NoError]
             ELSE [failure_count |-> fc + 1, ret |-> "Tripped", val |-> NoError]
      ELSE [failure_count |-> fc, ret |-> "Ran", val |-> r]

\* mutant: a success is passed on without resetting the counter
check_no_reset(fc, r) ==
  IF r = OkResult
    THEN [failure_count |-> fc, ret |-> "Ran", val |-> r]
    ELSE IF is_transient(r)
      THEN IF fc + 1 < BreakerThreshold
             THEN [failure_count |-> fc + 1, ret |-> "Suppressed", val |-> NoError]
             ELSE [failure_count |-> fc + 1, ret |-> "Tripped", val |-> NoError]
      ELSE [failure_count |-> fc, ret |-> "Ran", val |-> r]

\* mutant: every failure is counted, the non-transient ones too
check_counts_fatal(fc, r) ==
  IF r = OkResult
    THEN [failure_count |-> 0, ret |-> "Ran", val |-> r]
    ELSE IF is_transient(r)
      THEN IF fc + 1 < BreakerThreshold
             THEN [failure_count |-> fc + 1, ret |-> "Suppressed", val |-> NoError]
             ELSE [failure_count |-> fc + 1, ret |-> "Tripped", val |-> NoError]
      ELSE [failure_count |-> fc + 1, ret |-> "Ran", val |-> r]

\* mutant: a transient failure is handed back to the caller instead of swallowed
check_leaks_transient(fc, r) ==
  IF r = OkResult
    THEN [failure_count |-> 0, ret |-> "Ran", val |-> r]
    ELSE IF is_transient(r)
      THEN IF fc + 1 < BreakerThreshold
             THEN [failure_count |-> fc + 1, ret |-> "Ran", val |-> r]
             ELSE [failure_count |-> fc + 1, ret |-> "Tripped", val |-> NoError]
      ELSE [failure_count |-> fc, ret |-> "Ran", val |-> r]

\* mutant: the threshold test is missing
check_never_trips(fc, r) ==
  IF r = OkResult
    THEN [failure_count |-> 0, ret |-> "Ran", val |-> r]
    ELSE IF is_transient(r)
      THEN [failure_count |-> fc + 1, ret |-> "Suppressed", val |-> NoError]
      ELSE [failure_count |-> fc, ret |-> "Ran", val |-> r]

check(fc, r) ==
  IF r = OkResult
    THEN [failure_count |-> 0, ret |-> "Ran", val |-> r]
    ELSE IF is_transient(r)
      THEN IF fc + 1 < BreakerThreshold
             THEN [failure_count |-> fc + 1, ret |-> "Suppressed", val |-> NoError]
             ELSE [failure_count |-> fc + 1, ret |-> "Tripped", val |-> NoError]
      ELSE [failure_count |-> fc, ret |-> "Ran", val |-> r]

----------------------------------------------------------------------------
VARIABLES
  \* BreakerSpec: one Breaker and the outcomes fed to it
  bk,            \* Breaker.failure_count
  bkPrev,        \* failure_count before the last check
  bkIn,          \* the last outcome fed
  bkOut,         \* what the last check returned
  bkFeeds,       \* number of outcomes fed
  bkLead,        \* number of transient failures fed before the first other outcome
  bkRunAfterOk,  \* k when the feeds end with a success and then k transient failures, else -1
  \* Spec: PollSpawnerHandle clones and their calls
  handles,       \* the handle clones not yet dropped
  hstate,        \* "idle" or "calling" (inside try_start_polling / try_start_many)
  hpending,      \* the pairs the call has still to send
  \* the mpsc channel
  mailbox,       \* the queued pairs, oldest first
  parked,        \* the channel's parked_queue of senders
  \* the supervisor task
  pollers,       \* HashMap<AccountId, AbortHandle>; 0 is no entry
  children,      \* FuturesUnordered of the workers' JoinHandles
  supState,      \* "Running", "Errored" (returned Err), "Panicked", "Finished" (returned Ok)
  supErr,        \* the Err the task returned
  \* the workers, numbered in spawn order
  nworkers,
  wacct,         \* account_id
  wtoken,        \* access_token
  wstate,        \* "Unspawned", "Running", "Cancelled" (Aborted), "Failed"
  wpc,           \* the await the worker is at: "start", "fetch", "forward", "sleep"; "end" once the task ended
  aborted,       \* the flag AbortHandle::abort sets: "no", or how abort() found the
                 \* task: "suspended" (between two polls) or "midpoll" (inside one)
  werr,          \* the Err poll_one_account returned
  breaker,       \* the worker's Breaker.failure_count
  wrun,          \* transient failures in a row the collaborators gave the worker
  wlong,         \* TRUE once such a run reached the breaker's threshold
  wfatal,        \* TRUE once a collaborator gave the worker a non-transient failure
  wused,         \* the credential of the worker's request to the source in flight, or "-";
                 \* the request is dropped with the task
  wtag,          \* the account_id on the items the worker is forwarding, or "-"
  \* the process
  procState,     \* "Up" or "Exited"
  coreErr,       \* what core() returned
  exitCode,      \* the process's exit status, -1 while it runs
  \* ActorSpec: one actor generated by #[alictor] and its callers
  actorState,    \* "Running", "Ended" (the loop returned) or "Panicked"; rx is
                 \* dropped once the task is over
  actorCount,    \* the actor's own state: the number of operations it has run
  amailbox,      \* the queued commands <<caller, number of the call>>, each
                 \* carrying the reply Sender of that call
  alast,         \* per caller, the number of its call the loop took out last
  ahandles,      \* the callers whose handle clone is not yet dropped
  cstate,        \* "idle", or "awaiting" (inside rx.await of try_<name>)
  slot,          \* the oneshot of the caller's last call: <<"none">>, <<"open">>,
                 \* <<"value", v>>, <<"dropped">> (Sender gone), <<"abandoned">> (Receiver gone)
  cresult,       \* what the caller's last try_<name> returned
  ccalls,        \* calls the caller has made
  cwhen,         \* the actor's state when the caller's last call was made
  \* DeliverySpec: one account's worker, the source, the storage and the sink
  dSource,       \* the unread items the source holds for the account
  dSeen,         \* the items a fetch has returned to the worker
  dFetched,      \* the items of the fetch in progress
  dRecorded,     \* the rows of the notifications table, unique on (account_id, text)
  dNew,          \* what add_new_notifications returned: the rows it inserted
  dDelivered,    \* the items the sink has accepted
  dpc,           \* "ready" (before a fetch), "fetched", "notify"
  dState,        \* "Running" or "Failed"
  dBreaker,      \* the worker's Breaker.failure_count
  dFaults,       \* transient failures the collaborators have produced
  \* RegisterSpec: the registrations table, one boot and the register flows
  db_registrations, \* the registrations table: the access_token stored for each
                 \* account_id, "-" for none (account_id is the conflict key)
  rpc,           \* per register flow: "idle", "persist" (awaiting db.register),
                 \* "start" (before start_polling), "failed" (returned the error)
  racct,         \* the account_id the flow's exchange gave
  rtoken,        \* the access_token the flow's exchange gave
  bootpc,        \* BootFlow::boot: "load", "sent" (inside start_many), "done"
  restarts,      \* times the process was started again over the same database
  \* SessionSpec: one session of the web UI and the requests that carry its cookie
  sessions,      \* SESSIONS: the SessionData stored for the session
  qpc,           \* per request: "none", "begin" / "complete" (the session filter has
                 \* run, the handler has not), "register" (inside flow.register),
                 \* "done", "rejected" (StateParameterMismatch), "failed"
  qsession,      \* the request's own Session, cloned from the store by the filter
  qstate,        \* params.state of a complete request
  issued,        \* oauth states the begin route has generated
  passed,        \* per oauth state, the complete requests that passed the check with it
  requests       \* requests received

breakerVars == <<bk, bkPrev, bkIn, bkOut, bkFeeds, bkLead, bkRunAfterOk>>
handleVars == <<handles, hstate, hpending>>
chanVars == <<mailbox, parked>>
supVars == <<pollers, children, supState, supErr>>
workerVars ==
  <<nworkers, wacct, wtoken, wstate, wpc, aborted, werr, breaker,
    wrun, wlong, wfatal, wused, wtag>>
procVars == <<procState, coreErr, exitCode>>
spawnerVars == <<handleVars, chanVars, supVars, workerVars, procVars>>
actorVars ==
  <<actorState, actorCount, amailbox, alast, ahandles, cstate, slot, cresult,
    ccalls, cwhen>>

deliveryVars ==
  <<dSource, dSeen, dFetched, dRecorded, dNew, dDelivered, dpc, dState,
    dBreaker, dFaults>>

sessionVars == <<sessions, qpc, qsession, qstate, issued, passed, requests>>
flowVars == <<db_registrations, rpc, racct, rtoken, bootpc, restarts, sessionVars>>

vars == <<breakerVars, spawnerVars, actorVars, deliveryVars, flowVars>>

----------------------------------------------------------------------------
(* The circuit breaker on its own *)

BreakerInit ==
  /\ bk = 0
  /\ bkPrev = 0
  /\ bkIn = NoError
  /\ bkOut = [failure_count |-> 0, ret |-> "None", val |-> NoError]
  /\ bkFeeds = 0
  /\ bkLead = 0
  /\ bkRunAfterOk = -1

\* breaker.check(r)
Feed(r) ==
  /\ bkFeeds < MaxFeeds
  /\ bkPrev' = bk
  /\ bkIn' = r
  /\ bkOut' = check(bk, r)
  /\ bk' = check(bk, r).failure_count
  /\ bkFeeds' = bkFeeds + 1
  /\ bkLead' = IF is_transient(r) /\ bkLead = bkFeeds THEN bkLead + 1 ELSE bkLead
  /\ bkRunAfterOk' =
       IF r = OkResult THEN 0
       ELSE IF is_transient(r) /\ bkRunAfterOk >= 0 THEN bkRunAfterOk + 1
       ELSE -1
  /\ UNCHANGED <<spawnerVars, actorVars, deliveryVars,
                 flowVars>>

----------------------------------------------------------------------------
(* One account's fetch-and-forward attempts against the source, the
   notifications table and the sink.  The collaborators fail with transient
   errors only, and at most MaxFaults times in all: the worker keeps running
   and the sink accepts from then on. *)

Items == 1 .. MaxItems

DeliveryInit ==
  /\ dSource = {}
  /\ dSeen = {}
  /\ dFetched = {}
  /\ dRecorded = {}
  /\ dNew = {}
  /\ dDelivered = {}
  /\ dpc = "ready"
  /\ dState = "Running"
  /\ dBreaker = 0
  /\ dFaults = 0

\* a new unread item appears at the source; it stays unread
SourceNewItem(x) ==
  /\ x \notin dSource
  /\ dSource' = dSource \cup {x}
  /\ UNCHANGED <<dSeen, dFetched, dRecorded, dNew, dDelivered, dpc, dState,
                 dBreaker, dFaults>>
  /\ UNCHANGED <<breakerVars, spawnerVars, actorVars, flowVars>>

\* the attempt is over with result r: breaker.run, the two ? of lines 102-103,
\* then the delay before the next iteration
DeliveryAttemptEnds(r) ==
  LET res == check(dBreaker, r)
  IN /\ dBreaker' = res.failure_count
     /\ dState' = IF res.ret = "Tripped" \/ (res.ret = "Ran" /\ res.val # OkResult)
                    THEN "Failed" ELSE "Running"
     /\ dFaults' = IF r = OkResult THEN dFaults ELSE dFaults + 1
     /\ dpc' = "ready"

\* mutant: a plain INSERT .. RETURNING id, every row given comes back
new_rows_all(notifications) == notifications

\* INSERT .. ON CONFLICT (account_id, text) DO NOTHING RETURNING id: the rows
\* that were not in the table
new_rows(notifications) == notifications \ dRecorded

\* so_client.unread_notifications().await
DeliveryFetch(ok) ==
  /\ dState = "Running" /\ dpc = "ready"
  /\ IF ok
       THEN /\ dFetched' = dSource
            /\ dSeen' = dSeen \cup dSource
            /\ dpc' = "fetched"
            /\ UNCHANGED <<dState, dBreaker, dFaults>>
       ELSE /\ dFaults < MaxFaults
            /\ DeliveryAttemptEnds(UnableToGetUnreadNotifications("transient"))
            /\ UNCHANGED <<dFetched, dSeen>>
  /\ UNCHANGED <<dSource, dRecorded, dNew, dDelivered>>
  /\ UNCHANGED <<breakerVars, spawnerVars, actorVars, flowVars>>

\* the forward up to the sink: nothing fetched, or db.add_new_notifications
add_new_notifications ==
  /\ dState = "Running" /\ dpc = "fetched"
  /\ IF dFetched = {}
       THEN /\ DeliveryAttemptEnds(OkResult)
            /\ UNCHANGED <<dRecorded, dNew>>
       ELSE /\ dRecorded' = dRecorded \cup dFetched
            /\ dNew' = new_rows(dFetched)
            /\ IF new_rows(dFetched) = {}
                 THEN DeliveryAttemptEnds(OkResult)
                 ELSE dpc' = "notify" /\ UNCHANGED <<dState, dBreaker, dFaults>>
  /\ UNCHANGED <<dSource, dSeen, dFetched, dDelivered>>
  /\ UNCHANGED <<breakerVars, spawnerVars, actorVars, flowVars>>

\* pushover.notify(new_notifications).await
notify(ok) ==
  /\ dState = "Running" /\ dpc = "notify"
  /\ IF ok
       THEN /\ dDelivered' = dDelivered \cup dNew
            /\ DeliveryAttemptEnds(OkResult)
       ELSE /\ dFaults < MaxFaults
            /\ dDelivered' = dDelivered
            /\ DeliveryAttemptEnds(UnableToSendNotifications("transient"))
  /\ UNCHANGED <<dSource, dSeen, dFetched, dRecorded, dNew>>
  /\ UNCHANGED <<breakerVars, spawnerVars, actorVars, flowVars>>

\* the worker's next step
DeliveryWorker ==
  \/ \E ok \in BOOLEAN : DeliveryFetch(ok)
  \/ add_new_notifications
  \/ \E ok \in BOOLEAN : notify(ok)

----------------------------------------------------------------------------
(* The poll spawner *)

SpawnerInit ==
  /\ handles = Handles
  /\ hstate = [h \in Handles |-> "idle"]
  /\ hpending = [h \in Handles |-> <<>>]
  /\ mailbox = <<>>
  /\ parked = <<>>
  /\ pollers = [k \in Accounts |-> 0]
  /\ children = {}
  /\ supState = "Running"
  /\ supErr = NoError
  /\ nworkers = 0
  /\ wacct = [w \in Workers |-> "-"]
  /\ wtoken = [w \in Workers |-> "-"]
  /\ wstate = [w \in Workers |-> "Unspawned"]
  /\ wpc = [w \in Workers |-> "start"]
  /\ aborted = [w \in Workers |-> "no"]
  /\ werr = [w \in Workers |-> NoError]
  /\ breaker = [w \in Workers |-> 0]
  /\ wrun = [w \in Workers |-> 0]
  /\ wlong = [w \in Workers |-> FALSE]
  /\ wfatal = [w \in Workers |-> FALSE]
  /\ wused = [w \in Workers |-> "-"]
  /\ wtag = [w \in Workers |-> "-"]
  /\ procState = "Up"
  /\ coreErr = "-"
  /\ exitCode = -1

InParked(h) == \E i \in 1 .. Len(parked) : parked[i] = h

\* mutant: the senders never see the receiver go
ChannelOpen_always == TRUE

\* the receiver is alive as long as the supervisor task is
ChannelOpen == supState = "Running"

\* the pairs taken by the handles and not dropped with the channel
InFlight == nworkers + Len(mailbox) + Len(hpending["h1"]) + Len(hpending["h2"])

PairLists == UNION {[1 .. n -> Pair] : n \in 0 .. MaxMany}

\* mutant: the item jumps the queue
Queue_in_front(h, item) ==
  /\ mailbox' = <<item>> \o mailbox
  /\ parked' = IF Len(mailbox) >= ChannelBuffer THEN Append(parked, h) ELSE parked

\* mutant: a sender is never parked
Queue_never_parks(h, item) ==
  /\ mailbox' = Append(mailbox, item)
  /\ parked' = parked

\* Sender::start_send: the item is queued; the sender parks when the channel
\* already holds its buffer
Queue(h, item) ==
  /\ mailbox' = Append(mailbox, item)
  /\ parked' = IF Len(mailbox) >= ChannelBuffer THEN Append(parked, h) ELSE parked

\* what is left of a call after an item went in: more items to send, or the
\* flush, which waits while the sender is parked
AfterSend(h, rest) ==
  /\ hpending' = [hpending EXCEPT ![h] = rest]
  /\ hstate' = [hstate EXCEPT ![h] =
                  IF rest = <<>> /\ Len(mailbox) < ChannelBuffer THEN "idle" ELSE "calling"]

\* self.0.send(..) / send_all(..) with the pairs ps: the first one goes into
\* the channel, or the receiver is gone and .ok() makes the error None
Send(h, ps) ==
  /\ procState = "Up"
  /\ h \in handles
  /\ hstate[h] = "idle"
  /\ IF ps # <<>> /\ ChannelOpen
       THEN Queue(h, Head(ps)) /\ AfterSend(h, Tail(ps))
       ELSE UNCHANGED <<hstate, hpending, chanVars>>
  /\ UNCHANGED <<handles, supVars, workerVars, procVars>>

\* a call on a handle by a caller the model does not follow
BeginCall(h, ps) ==
  /\ Send(h, ps)
  /\ UNCHANGED <<breakerVars, actorVars, deliveryVars, flowVars>>

\* PollSpawnerHandle::try_start_polling
try_start_polling(h, account_id, access_token) ==
  BeginCall(h, <<(<<account_id, access_token>>)>>)

\* PollSpawnerHandle::try_start_many
try_start_many(h, registrations) == BeginCall(h, registrations)

\* the next pair of send_all goes into the channel
SendStep(h) ==
  /\ procState = "Up"
  /\ hstate[h] = "calling"
  /\ hpending[h] # <<>>
  /\ ~InParked(h)
  /\ ChannelOpen
  /\ Queue(h, Head(hpending[h]))
  /\ AfterSend(h, Tail(hpending[h]))
  /\ UNCHANGED <<handles, supVars, workerVars, procVars, breakerVars, actorVars, deliveryVars,
                 flowVars>>

\* the receiver is gone when the next pair is due: the call returns None
SendFails(h) ==
  /\ procState = "Up"
  /\ hstate[h] = "calling"
  /\ hpending[h] # <<>>
  /\ ~InParked(h)
  /\ ~ChannelOpen
  /\ hpending' = [hpending EXCEPT ![h] = <<>>]
  /\ hstate' = [hstate EXCEPT ![h] = "idle"]
  /\ UNCHANGED <<handles, chanVars, supVars, workerVars, procVars, breakerVars, actorVars, deliveryVars,
                 flowVars>>

\* mutant: the receiver wakes no sender
Unparked_nobody(woken) == hstate

\* the senders in `woken` leave the parked queue; one whose call has
\* nothing left to send was waiting in its flush, and the call returns Some(())
Unparked(woken) ==
  [h \in Handles |->
     IF h \in woken /\ hpending[h] = <<>> THEN "idle" ELSE hstate[h]]

\* a handle clone is dropped
DropHandle(h) ==
  /\ procState = "Up"
  /\ h \in handles
  /\ hstate[h] = "idle"
  /\ handles' = handles \ {h}
  /\ UNCHANGED <<hstate, hpending, chanVars, supVars, workerVars, procVars,
                 breakerVars, actorVars, deliveryVars,
                 flowVars>>

\* mutant: the previous abort handle is dropped without abort()
abort_old_forgotten(old, found) == aborted

\* mutant: every worker spawned so far is aborted
abort_old_everyone(old, found) ==
  [w \in Workers |-> IF w <= nworkers /\ aborted[w] = "no" THEN found ELSE aborted[w]]

\* mutant: abort() is lost on a task that is being polled
abort_old_suspended_only(old, found) ==
  IF old # 0 /\ found = "suspended" THEN [aborted EXCEPT ![old] = found] ELSE aborted

\* if let Some(old_handle) = old_handle { old_handle.abort(); }
abort_old(old, found) == IF old # 0 THEN [aborted EXCEPT ![old] = found] ELSE aborted

\* mutant: an existing entry is kept (entry().or_insert())
table_after_keep_first(account_id, w) ==
  IF pollers[account_id] = 0 THEN [pollers EXCEPT ![account_id] = w] ELSE pollers

\* pollers.insert(account_id, abort_handle)
table_after(account_id, w) == [pollers EXCEPT ![account_id] = w]

\* mutant: the loop waits until two commands are queued
rx_ready_in_pairs == Len(mailbox) >= 2

\* rx.select_next_some() is ready: a command is queued
rx_ready == mailbox # <<>>

\* the select! branch on rx: spawn the worker, replace the table entry.  The
\* workers are tasks of their own on the multi-threaded runtime, so abort()
\* finds the old one either between two polls or inside one.
Dispatch(found) ==
  /\ procState = "Up"
  /\ supState = "Running"
  /\ rx_ready
  /\ LET account_id == Head(mailbox)[1]
         access_token == Head(mailbox)[2]
         w == nworkers + 1
         old_handle == pollers[account_id]
     IN /\ found = "midpoll" => old_handle # 0 /\ wstate[old_handle] = "Running"
        /\ nworkers' = w
        /\ wacct' = [wacct EXCEPT ![w] = account_id]
        /\ wtoken' = [wtoken EXCEPT ![w] = access_token]
        /\ wstate' = [wstate EXCEPT ![w] = "Running"]
        /\ children' = children \cup {w}
        /\ pollers' = table_after(account_id, w)
        /\ aborted' = abort_old(old_handle, found)
  /\ mailbox' = Tail(mailbox)
  /\ parked' = IF parked # <<>> THEN Tail(parked) ELSE parked
  /\ hstate' = Unparked(IF parked # <<>> THEN {Head(parked)} ELSE {})
  /\ UNCHANGED <<handles, hpending, supState, supErr, wpc, werr, breaker, wrun,
                 wlong, wfatal, wused, wtag, procVars, breakerVars, actorVars,
                 deliveryVars,
                 flowVars>>

\* mutant: a failed worker is logged like a cancelled one
child_outcome_swallowed(w) == [state |-> "Running", err |-> NoError]

\* mutant: a cancelled worker ends the supervisor loop with Ok(())
child_outcome_breaks(w) ==
  IF wstate[w] = "Failed"
    THEN [state |-> "Errored", err |-> werr[w]]
    ELSE [state |-> "Finished", err |-> NoError]

\* match child.context(ChildFailed)? { Ok(v) => v?, Err(_) => warn!(..) }
child_outcome(w) ==
  IF wstate[w] = "Failed"
    THEN [state |-> "Errored", err |-> werr[w]]
    ELSE [state |-> "Running", err |-> NoError]

\* mutant: a worker that ended is spawned again
workers_after_child_restarted(w) == [wstate EXCEPT ![w] = "Running"]

\* the children branch only matches on the completion: it spawns nothing
workers_after_child(w) == wstate

\* the select! branch on children: one finished worker is taken out
ObserveChild(w) ==
  /\ procState = "Up"
  /\ supState = "Running"
  /\ w \in children
  /\ wstate[w] \in {"Cancelled", "Failed"}
  /\ children' = children \ {w}
  /\ supState' = child_outcome(w).state
  /\ supErr' = child_outcome(w).err
  /\ IF child_outcome(w).state = "Running"
       THEN UNCHANGED <<chanVars, hstate>>
       ELSE mailbox' = <<>> /\ parked' = <<>> /\ hstate' = Unparked(Handles)
  /\ wstate' = workers_after_child(w)
  /\ UNCHANGED <<nworkers, wacct, wtoken, wpc, aborted, werr, breaker, wrun,
                 wlong, wfatal, wused, wtag>>
  /\ UNCHANGED <<pollers, handles, hpending, procVars, breakerVars, actorVars,
                 deliveryVars,
                 flowVars>>

\* every handle is dropped, the channel is drained and no worker is pending:
\* both streams are terminated and select! has no complete branch
SelectExhausted ==
  /\ procState = "Up"
  /\ supState = "Running"
  /\ handles = {}
  /\ mailbox = <<>>
  /\ children = {}
  /\ supState' = "Panicked"
  /\ UNCHANGED <<pollers, children, supErr, handleVars, chanVars, workerVars,
                 procVars, breakerVars, actorVars, deliveryVars,
                 flowVars>>

----------------------------------------------------------------------------
(* A worker: poll_one_account wrapped by future::abortable and spawned as a
   task of its own.  Abortable looks at the flag when a poll starts and again
   when the inner future has returned Pending.  A step of a worker is one poll
   of its task, from one await to the next.  The Breaker and the other locals
   of the future are gone (0 and "end" here) once the task has ended. *)

\* mutant: the worker is spawned without the Abortable wrapper
aborted_at_poll_start_unchecked(w) == FALSE

\* Abortable's check before it polls the inner future
aborted_at_poll_start(w) == aborted[w] = "suspended"

\* Abortable's check after the inner future returned Pending
aborted_at_poll_end(w) == aborted[w] # "no"

\* mutant: Abortable returns Pending without looking at the flag
AfterPending_unchecked(w) == "Running"

\* the state of the task after a poll in which the inner future returned Pending
AfterPending(w) == IF aborted_at_poll_end(w) THEN "Cancelled" ELSE "Running"

\* the state the worker's locals are left in by a poll that ends in `state`
Locals(state, pc, fc) ==
  IF state = "Running" THEN [pc |-> pc, fc |-> fc] ELSE [pc |-> "end", fc |-> 0]

\* an aborted task is polled: it completes with Err(Aborted) at once
WorkerCancelled(w) ==
  /\ procState = "Up"
  /\ wstate[w] = "Running"
  /\ aborted_at_poll_start(w)
  /\ wstate' = [wstate EXCEPT ![w] = "Cancelled"]
  /\ wpc' = [wpc EXCEPT ![w] = "end"]
  /\ breaker' = [breaker EXCEPT ![w] = 0]
  /\ wrun' = [wrun EXCEPT ![w] = 0]
  /\ wused' = [wused EXCEPT ![w] = "-"]
  /\ wtag' = [wtag EXCEPT ![w] = "-"]
  /\ UNCHANGED <<nworkers, wacct, wtoken, aborted, werr, wlong, wfatal,
                 handleVars, chanVars, supVars, procVars, breakerVars, actorVars, deliveryVars,
                 flowVars>>

\* mutant: the breaker belongs to the account and outlives the worker
Breaker_kept(w) ==
  IF w > 1 /\ wacct[w - 1] = wacct[w] THEN breaker[w - 1] ELSE 0

\* let mut breaker = Breaker::default(): failure_count of worker w's breaker
Breaker_default(w) == 0

\* so_client = AuthClient::new(so_config, access_token): the credential of
\* worker w's requests
client_token(w) == wtoken[w]

\* mutant: the items carry the account of the first worker
item_tag_first(w) == wacct[1]

\* IncomingNotification { account_id, text: n.body }: the account_id on the
\* items worker w forwards
item_tag(w) == wacct[w]

\* the first poll, or the poll after delay_for: unread_notifications() is begun
WorkerBeginFetch(w) ==
  /\ procState = "Up"
  /\ wstate[w] = "Running"
  /\ ~aborted_at_poll_start(w)
  /\ wpc[w] \in {"start", "sleep"}
  /\ LET state == AfterPending(w)
         fc == IF wpc[w] = "start" THEN Breaker_default(w) ELSE breaker[w]
     IN /\ wstate' = [wstate EXCEPT ![w] = state]
        /\ wpc' = [wpc EXCEPT ![w] = Locals(state, "fetch", fc).pc]
        /\ breaker' = [breaker EXCEPT ![w] = Locals(state, "fetch", fc).fc]
        /\ wrun' = [wrun EXCEPT ![w] = IF state = "Running" THEN @ ELSE 0]
  /\ wused' = [wused EXCEPT ![w] =
                  IF AfterPending(w) = "Running" THEN client_token(w) ELSE "-"]
  /\ UNCHANGED <<nworkers, wacct, wtoken, aborted, werr, wlong, wfatal, wtag,
                 handleVars, chanVars, supVars, procVars, breakerVars, actorVars, deliveryVars,
                 flowVars>>

\* the fetch answered Ok: flow.notify(r) is begun
WorkerBeginForward(w) ==
  /\ procState = "Up"
  /\ wstate[w] = "Running"
  /\ ~aborted_at_poll_start(w)
  /\ wpc[w] = "fetch"
  /\ LET state == AfterPending(w)
     IN /\ wstate' = [wstate EXCEPT ![w] = state]
        /\ wpc' = [wpc EXCEPT ![w] = Locals(state, "forward", breaker[w]).pc]
        /\ breaker' = [breaker EXCEPT ![w] = Locals(state, "forward", breaker[w]).fc]
        /\ wrun' = [wrun EXCEPT ![w] = IF state = "Running" THEN @ ELSE 0]
  /\ wused' = [wused EXCEPT ![w] = "-"]
  /\ wtag' = [wtag EXCEPT ![w] =
                 IF AfterPending(w) = "Running" THEN item_tag(w) ELSE "-"]
  /\ UNCHANGED <<nworkers, wacct, wtoken, aborted, werr, wlong, wfatal,
                 handleVars, chanVars, supVars, procVars, breakerVars, actorVars, deliveryVars,
                 flowVars>>

\* mutant: the inner Result is dropped (no attempt? after the breaker's)
attempt_fails_on_trip_only(attempt) == attempt.ret = "Tripped"

\* attempt.await.context(TooManyTransientFailures)? and attempt?: whether the
\* worker returns an Err
attempt_fails(attempt) ==
  attempt.ret = "Tripped" \/ (attempt.ret = "Ran" /\ attempt.val # OkResult)

\* mutant: a suppressed failure is retried at once (continue before the delay)
after_attempt_retry(attempt) == IF attempt.ret = "Suppressed" THEN "fetch" ELSE "sleep"

\* the await the loop reaches after an attempt that did not return:
\* time::delay_for(Duration::from_secs(60))
after_attempt(attempt) == "sleep"

\* the attempt's Result once the awaited call of the collaborator gave o
AttemptResult(pc, o) ==
  IF o = "Ok" THEN OkResult
  ELSE IF pc = "fetch" THEN UnableToGetUnreadNotifications(o)
  ELSE UnableToSendNotifications(o)

\* the attempt ends (the fetch failed, or the forward answered): the breaker
\* sees its result, and the worker returns the error or goes to sleep
WorkerAttemptEnds(w, o) ==
  /\ procState = "Up"
  /\ wstate[w] = "Running"
  /\ ~aborted_at_poll_start(w)
  /\ wpc[w] \in {"fetch", "forward"}
  /\ wpc[w] = "fetch" => o # "Ok"
  /\ o = "transient" => wrun[w] <= BreakerThreshold
  /\ LET attempt == check(breaker[w], AttemptResult(wpc[w], o))
         run == IF o = "transient" THEN wrun[w] + 1 ELSE 0
         failed == attempt_fails(attempt)
         state == IF failed THEN "Failed" ELSE AfterPending(w)
     IN /\ wstate' = [wstate EXCEPT ![w] = state]
        /\ wpc' = [wpc EXCEPT ![w] =
                     Locals(state, after_attempt(attempt), attempt.failure_count).pc]
        /\ breaker' = [breaker EXCEPT ![w] =
                         Locals(state, after_attempt(attempt), attempt.failure_count).fc]
        /\ wrun' = [wrun EXCEPT ![w] = IF state = "Running" THEN run ELSE 0]
        /\ wlong' = [wlong EXCEPT ![w] = @ \/ run >= BreakerThreshold]
        /\ wfatal' = [wfatal EXCEPT ![w] = @ \/ o = "fatal"]
        /\ werr' = [werr EXCEPT ![w] =
                      IF attempt.ret = "Tripped" THEN TooManyTransientFailures
                      ELSE IF failed THEN attempt.val ELSE @]
  /\ wused' = [wused EXCEPT ![w] = "-"]
  /\ wtag' = [wtag EXCEPT ![w] = "-"]
  /\ UNCHANGED <<nworkers, wacct, wtoken, aborted, handleVars, chanVars, supVars,
                 procVars, breakerVars, actorVars, deliveryVars,
                 flowVars>>

----------------------------------------------------------------------------
(* The process: core() selects on the supervisor's JoinHandle, main() exits *)

\* poll_spawner_task.context(PollSpawnerFailed)?.context(PollSpawnerErrored)?;
\* PollSpawnerExited.fail()
core_result(s) ==
  CASE s = "Panicked" -> "PollSpawnerFailed"
    [] s = "Errored" -> "PollSpawnerErrored"
    [] OTHER -> "PollSpawnerExited"

\* if let Err(e) = core() { .. std::process::exit(1) }
exit_status(r) == IF r = "Ok" THEN 0 ELSE 1

CoreExit ==
  /\ procState = "Up"
  /\ supState # "Running"
  /\ procState' = "Exited"
  /\ coreErr' = core_result(supState)
  /\ exitCode' = exit_status(core_result(supState))
  /\ UNCHANGED <<handleVars, chanVars, supVars, workerVars, breakerVars, actorVars, deliveryVars,
                 flowVars>>

----------------------------------------------------------------------------
(* An actor generated by #[alictor]: the handle's try_<name>, the dispatch
   loop of the spawned task.  try_<name> takes &mut self and awaits the reply,
   so a caller has one call at a time; a caller that drops the future of a
   call leaves its command behind.  The commands of MaxCalls calls per caller
   stay below the channel's buffer, so no send waits for room. *)

Callers == {"a1", "a2"}

ActorError == <<"Err", "ActorError">>

ActorInit ==
  /\ actorState = "Running"
  /\ actorCount = 0
  /\ amailbox = <<>>
  /\ alast = [c \in Callers |-> 0]
  /\ ahandles = Callers
  /\ cstate = [c \in Callers |-> "idle"]
  /\ slot = [c \in Callers |-> <<"none">>]
  /\ cresult = [c \in Callers |-> <<"-">>]
  /\ ccalls = [c \in Callers |-> 0]
  /\ cwhen = [c \in Callers |-> "-"]

\* let _ = send(&mut self.0, Command::name(tx, ..)).await: a command the
\* closed channel refuses is dropped, and its reply Sender with it
slot_after_send(state) == IF state = "Running" THEN <<"open">> ELSE <<"dropped">>

\* mutant: a dropped reply slot is answered with the default value
try_result_default(sl) == IF sl[1] = "value" THEN <<"Ok", sl[2]>> ELSE <<"Ok", 0>>

\* rx.await.context(ActorContext)
try_result(sl) == IF sl[1] = "value" THEN <<"Ok", sl[2]>> ELSE ActorError

\* try_<name> up to its rx.await
try_op(c) ==
  /\ c \in ahandles
  /\ cstate[c] = "idle"
  /\ ccalls[c] < MaxCalls
  /\ Len(amailbox) < ChannelBuffer
  /\ ccalls' = [ccalls EXCEPT ![c] = @ + 1]
  /\ cwhen' = [cwhen EXCEPT ![c] = actorState]
  /\ slot' = [slot EXCEPT ![c] = slot_after_send(actorState)]
  /\ amailbox' = IF actorState = "Running"
                    THEN Append(amailbox, <<c, ccalls[c] + 1>>) ELSE amailbox
  /\ cstate' = [cstate EXCEPT ![c] = "awaiting"]
  /\ UNCHANGED <<actorState, actorCount, alast, ahandles, cresult, breakerVars,
                 spawnerVars, deliveryVars,
                 flowVars>>

\* rx.await is over: the reply slot holds a value or its Sender is gone
Resolve(c) ==
  /\ cstate[c] = "awaiting"
  /\ slot[c][1] \in {"value", "dropped"}
  /\ cresult' = [cresult EXCEPT ![c] = try_result(slot[c])]
  /\ cstate' = [cstate EXCEPT ![c] = "idle"]
  /\ UNCHANGED <<actorState, actorCount, amailbox, alast, ahandles, slot, ccalls,
                 cwhen, breakerVars, spawnerVars, deliveryVars,
                 flowVars>>

\* the caller drops the future of its call: the reply Receiver is gone, the
\* command stays where it is
Abandon(c) ==
  /\ cstate[c] = "awaiting"
  /\ cstate' = [cstate EXCEPT ![c] = "idle"]
  /\ slot' = [slot EXCEPT ![c] = <<"abandoned">>]
  /\ UNCHANGED <<actorState, actorCount, amailbox, alast, ahandles, cresult,
                 ccalls, cwhen, breakerVars, spawnerVars, deliveryVars,
                 flowVars>>

\* a caller drops its handle clone
DropActorHandle(c) ==
  /\ c \in ahandles
  /\ cstate[c] = "idle"
  /\ ahandles' = ahandles \ {c}
  /\ UNCHANGED <<actorState, actorCount, amailbox, alast, cstate, slot, cresult,
                 ccalls, cwhen, breakerVars, spawnerVars, deliveryVars,
                 flowVars>>

\* mutant: the loop takes the newest command
next_command_newest(q) == Len(q)

\* rx.next(): the place in the queue of the command the loop gets, the oldest
next_command(q) == 1

\* the queue without its i-th command
Without(q, i) == SubSeq(q, 1, i - 1) \o SubSeq(q, i + 1, Len(q))

\* mutant: one reply slot per handle, shared by its calls
Awaits_any_call(c, k) == cstate[c] = "awaiting" /\ slot[c] = <<"open">>

\* the Receiver of the reply to call k of caller c is still there
Awaits(c, k) == cstate[c] = "awaiting" /\ ccalls[c] = k /\ slot[c] = <<"open">>

\* mutant: the reply is sent with expect(): a failed delivery panics the task
after_reply_expect(delivered) == IF delivered THEN "Running" ELSE "Panicked"

\* let _ = __r.send(retval): the loop goes on whether the reply was delivered
after_reply(delivered) == "Running"

\* one turn of the dispatch loop: let retval = self.name(..); let _ = __r.send(retval)
ActorServe ==
  /\ actorState = "Running"
  /\ amailbox # <<>>
  /\ LET i == next_command(amailbox)
         c == amailbox[i][1]
         k == amailbox[i][2]
     IN /\ slot' = IF Awaits(c, k)
                     THEN [slot EXCEPT ![c] = <<"value", actorCount + 1>>] ELSE slot
        /\ alast' = [alast EXCEPT ![c] = k]
        /\ amailbox' = Without(amailbox, i)
        /\ actorState' = after_reply(Awaits(c, k))
  /\ actorCount' = actorCount + 1
  /\ UNCHANGED <<ahandles, cstate, cresult, ccalls, cwhen,
                 breakerVars, spawnerVars, deliveryVars,
                 flowVars>>

\* the operation panics: the task unwinds, dropping the command at hand, the
\* receiver and every command still queued
ActorPanics ==
  /\ actorState = "Running"
  /\ amailbox # <<>>
  /\ actorState' = "Panicked"
  /\ slot' = [c \in Callers |->
                IF \E i \in 1 .. Len(amailbox) :
                     amailbox[i][1] = c /\ Awaits(c, amailbox[i][2])
                  THEN <<"dropped">> ELSE slot[c]]
  /\ amailbox' = <<>>
  /\ UNCHANGED <<actorCount, alast, ahandles, cstate, cresult, ccalls, cwhen,
                 breakerVars, spawnerVars, deliveryVars,
                 flowVars>>

\* mutant: the stream ends with the last handle, whatever is still queued
stream_ended_with_handles == ahandles = {}

\* rx.next() gives None: every Sender is dropped and the queue is empty
stream_ended == ahandles = {} /\ amailbox = <<>>

\* every handle clone is dropped: rx.next() gives None and the loop ends
ActorLoopEnds ==
  /\ actorState = "Running"
  /\ stream_ended
  /\ actorState' = "Ended"
  /\ UNCHANGED <<actorCount, amailbox, alast, ahandles, cstate, slot, cresult,
                 ccalls, cwhen, breakerVars, spawnerVars, deliveryVars,
                 flowVars>>

----------------------------------------------------------------------------
(* The flows of flow.rs over the registrations table.  The database is an
   actor, so its commands run one at a time; a flow's step is the part of it
   between two awaits.  main.rs runs boot before it starts the web server, so
   the register flows begin once boot has returned.  A register flow sends
   through the handle clone of its own; boot's clone is "h1", free again when
   boot has returned.  The channel never fills here, so start_polling returns
   in the step that sends. *)

Flows == {"f1", "f2"}

FlowHandle(f) == IF f = "f1" THEN "h1" ELSE "h2"

NoRow == "-"

FlowInit ==
  /\ db_registrations = [k \in Accounts |-> NoRow]
  /\ rpc = [f \in Flows |-> "idle"]
  /\ racct = [f \in Flows |-> "-"]
  /\ rtoken = [f \in Flows |-> "-"]
  /\ bootpc = "load"
  /\ restarts = 0

\* Db::register: INSERT .. ON CONFLICT (account_id) DO UPDATE
\* SET access_token = access_token: a new row is inserted, an existing row is
\* set to the value it holds
register(table, account_id, access_token) ==
  IF table[account_id] = NoRow
    THEN [table EXCEPT ![account_id] = access_token]
    ELSE [table EXCEPT ![account_id] = table[account_id]]

\* Db::registrations: the rows of the table
Rows(table) == {<<k, table[k]>> : k \in {a \in Accounts : table[a] # NoRow}}

\* the rows in any of the orders a SELECT without ORDER BY may give
RowLists(table) ==
  {l \in [1 .. Cardinality(Rows(table)) -> Rows(table)] :
     \A i, j \in 1 .. Cardinality(Rows(table)) : l[i] = l[j] => i = j}

\* mutant: the result of db.register is dropped
after_persist_ignored(ok) == "start"

\* db.register(..).await.context(UnableToPersistRegistrationSnafu)?
after_persist(ok) == IF ok THEN "start" ELSE "failed"

\* the flows between the exchange and their return
Pending == {f \in Flows : rpc[f] \in {"persist", "start"}}

\* RegisterFlow::register up to db.register(..).await: the exchange gave the
\* account and its credential and the Register command is sent
RegisterBegin(f, account_id, access_token) ==
  /\ procState = "Up"
  /\ bootpc = "done"
  /\ rpc[f] \in {"idle", "failed"}
  /\ InFlight + Cardinality(Pending) < MaxRegs
  /\ rpc' = [rpc EXCEPT ![f] = "persist"]
  /\ racct' = [racct EXCEPT ![f] = account_id]
  /\ rtoken' = [rtoken EXCEPT ![f] = access_token]
  /\ UNCHANGED <<db_registrations, bootpc, restarts, breakerVars, spawnerVars,
                 actorVars, deliveryVars, sessionVars>>

\* the database task runs the Register command and replies
RegisterPersist(f, ok) ==
  /\ procState = "Up"
  /\ rpc[f] = "persist"
  /\ db_registrations' =
       IF ok THEN register(db_registrations, racct[f], rtoken[f]) ELSE db_registrations
  /\ rpc' = [rpc EXCEPT ![f] = after_persist(ok)]
  /\ UNCHANGED <<racct, rtoken, bootpc, restarts, breakerVars, spawnerVars,
                 actorVars, deliveryVars, sessionVars>>

\* poll_spawner.start_polling(account_id, access_token).await; Ok(account_id)
RegisterStart(f) ==
  /\ rpc[f] = "start"
  /\ Send(FlowHandle(f), <<(<<racct[f], rtoken[f]>>)>>)
  /\ rpc' = [rpc EXCEPT ![f] = "idle"]
  /\ UNCHANGED <<db_registrations, racct, rtoken, bootpc, restarts, breakerVars,
                 actorVars, deliveryVars, sessionVars>>

\* BootFlow::boot: db.registrations().await, then start_many is begun
BootStart(l) ==
  /\ bootpc = "load"
  /\ l \in RowLists(db_registrations)
  /\ Send("h1", l)
  /\ bootpc' = "sent"
  /\ UNCHANGED <<db_registrations, rpc, racct, rtoken, restarts, breakerVars,
                 actorVars, deliveryVars, sessionVars>>

\* start_many has returned, and boot with it
BootReturns ==
  /\ procState = "Up"
  /\ bootpc = "sent"
  /\ hstate["h1"] = "idle"
  /\ bootpc' = "done"
  /\ UNCHANGED <<db_registrations, rpc, racct, rtoken, restarts, breakerVars,
                 spawnerVars, actorVars, deliveryVars, sessionVars>>

\* the process ends and is started again: its tasks are gone, the database
\* keeps its rows
Restart ==
  /\ restarts < MaxRestarts
  /\ restarts' = restarts + 1
  /\ handles' = Handles
  /\ hstate' = [h \in Handles |-> "idle"]
  /\ hpending' = [h \in Handles |-> <<>>]
  /\ mailbox' = <<>>
  /\ parked' = <<>>
  /\ pollers' = [k \in Accounts |-> 0]
  /\ children' = {}
  /\ supState' = "Running"
  /\ supErr' = NoError
  /\ nworkers' = 0
  /\ wacct' = [w \in Workers |-> "-"]
  /\ wtoken' = [w \in Workers |-> "-"]
  /\ wstate' = [w \in Workers |-> "Unspawned"]
  /\ wpc' = [w \in Workers |-> "start"]
  /\ aborted' = [w \in Workers |-> "no"]
  /\ werr' = [w \in Workers |-> NoError]
  /\ breaker' = [w \in Workers |-> 0]
  /\ wrun' = [w \in Workers |-> 0]
  /\ wlong' = [w \in Workers |-> FALSE]
  /\ wfatal' = [w \in Workers |-> FALSE]
  /\ wused' = [w \in Workers |-> "-"]
  /\ wtag' = [w \in Workers |-> "-"]
  /\ procState' = "Up"
  /\ coreErr' = "-"
  /\ exitCode' = -1
  /\ rpc' = [f \in Flows |-> "idle"]
  /\ racct' = [f \in Flows |-> "-"]
  /\ rtoken' = [f \in Flows |-> "-"]
  /\ bootpc' = "load"
  /\ UNCHANGED <<db_registrations, breakerVars, actorVars, deliveryVars, sessionVars>>

----------------------------------------------------------------------------
(* The sessions of web_ui.rs.  A request's filter session() locks SESSIONS and
   clones the SessionData of the cookie's id; the handler works on that clone
   and stores it back whole with save().  The lock is held inside for_id and
   inside save only, and the requests are tasks of the multi-threaded runtime,
   so another request's filter or save can fall between the two.  The begin
   route draws 64 random characters: each state it generates is new. *)

Requests == {"r1", "r2"}

\* Option<String>: None, and Some of the n-th string the begin route drew
NoState == <<>>
SomeState(n) == <<n>>

\* Option::None of account_id
NoAccount == "-"

OauthStates == {SomeState(n) : n \in 1 .. MaxBegins}

\* what a client may send as params.state: a generated state or another string
GivenStates == {SomeState(n) : n \in 1 .. MaxBegins + 1}

\* SessionData::default()
SessionData_default == [oauth_state |-> NoState, account_id |-> NoAccount]

SessionInit ==
  /\ sessions = SessionData_default
  /\ qpc = [r \in Requests |-> "none"]
  /\ qsession = [r \in Requests |-> SessionData_default]
  /\ qstate = [r \in Requests |-> NoState]
  /\ issued = 0
  /\ passed = [st \in OauthStates |-> 0]
  /\ requests = 0

\* Sessions::for_id: a clone of the stored data
for_id(store) == store

\* Sessions::save: the stored data is replaced by the session's
save(store, session) == session

\* Session::set_oauth_state
set_oauth_state(session, oauth_state) == [session EXCEPT !.oauth_state = oauth_state]

\* Session::take_oauth_state: Option::take on the session's own field
take_oauth_state(session) ==
  [taken |-> session.oauth_state,
   session |-> [session EXCEPT !.oauth_state = NoState]]

\* Session::set_account_id
set_account_id(session, account_id) == [session EXCEPT !.account_id = account_id]

\* expected_state.map_or(false, |e| params.state == e)
state_matches(expected_state, given) ==
  expected_state # NoState /\ given = expected_state

\* the filter session() of a request to a route: kind is "begin" or "complete"
SessionFilter(r, kind, given) ==
  /\ qpc[r] \in {"none", "done", "rejected", "failed"}
  /\ requests < MaxRequests
  /\ kind = "begin" => issued < MaxBegins /\ given = NoState
  /\ kind = "complete" => given \in GivenStates
  /\ requests' = requests + 1
  /\ qpc' = [qpc EXCEPT ![r] = kind]
  /\ qsession' = [qsession EXCEPT ![r] = for_id(sessions)]
  /\ qstate' = [qstate EXCEPT ![r] = given]
  /\ UNCHANGED <<sessions, issued, passed>>
  /\ UNCHANGED <<db_registrations, rpc, racct, rtoken, bootpc, restarts,
                 breakerVars, spawnerVars, actorVars, deliveryVars>>

\* oauth::begin: a new state is set on the session and the session is saved
begin(r) ==
  /\ qpc[r] = "begin"
  /\ issued' = issued + 1
  /\ qsession' =
       [qsession EXCEPT ![r] = set_oauth_state(qsession[r], SomeState(issued + 1))]
  /\ sessions' = save(sessions, set_oauth_state(qsession[r], SomeState(issued + 1)))
  /\ qpc' = [qpc EXCEPT ![r] = "done"]
  /\ UNCHANGED <<qstate, passed, requests>>
  /\ UNCHANGED <<db_registrations, rpc, racct, rtoken, bootpc, restarts,
                 breakerVars, spawnerVars, actorVars, deliveryVars>>

\* oauth::complete up to flow.register(..).await: the state is taken from the
\* session, the session is saved, and ensure! compares
complete(r) ==
  /\ qpc[r] = "complete"
  /\ LET t == take_oauth_state(qsession[r])
         ok == state_matches(t.taken, qstate[r])
     IN /\ qsession' = [qsession EXCEPT ![r] = t.session]
        /\ sessions' = save(sessions, t.session)
        /\ qpc' = [qpc EXCEPT ![r] = IF ok THEN "register" ELSE "rejected"]
        /\ passed' = IF ok THEN [passed EXCEPT ![t.taken] = @ + 1] ELSE passed
  /\ UNCHANGED <<qstate, issued, requests>>
  /\ UNCHANGED <<db_registrations, rpc, racct, rtoken, bootpc, restarts,
                 breakerVars, spawnerVars, actorVars, deliveryVars>>

\* flow.register has returned: with Ok(account_id) the account is set on the
\* session and the session is saved
complete_registered(r, ok, account_id) ==
  /\ qpc[r] = "register"
  /\ IF ok
       THEN /\ qsession' = [qsession EXCEPT ![r] = set_account_id(qsession[r], account_id)]
            /\ sessions' = save(sessions, set_account_id(qsession[r], account_id))
            /\ qpc' = [qpc EXCEPT ![r] = "done"]
       ELSE /\ qpc' = [qpc EXCEPT ![r] = "failed"]
            /\ UNCHANGED <<qsession, sessions>>
  /\ UNCHANGED <<qstate, issued, passed, requests>>
  /\ UNCHANGED <<db_registrations, rpc, racct, rtoken, bootpc, restarts,
                 breakerVars, spawnerVars, actorVars, deliveryVars>>

----------------------------------------------------------------------------
(* Specifications *)

Init == BreakerInit /\ SpawnerInit /\ ActorInit /\ DeliveryInit /\ FlowInit /\ SessionInit

\* the steps of the supervisor task and of the process
SupervisorNext ==
  \/ \E found \in {"suspended", "midpoll"} : Dispatch(found)
  \/ \E w \in Workers : ObserveChild(w)
  \/ SelectExhausted
  \/ CoreExit

\* Spec: the poll spawner under registrations that replace one another; the
\* collaborators answer Ok or with a non-transient error
Next ==
  \/ \E h \in Handles, p \in Pair :
       InFlight < MaxRegs /\ try_start_polling(h, p[1], p[2])
  \/ \E h \in Handles, ps \in PairLists :
       InFlight + Len(ps) <= MaxRegs /\ try_start_many(h, ps)
  \/ \E h \in Handles : SendStep(h)
  \/ \E h \in Handles : SendFails(h)
  \/ \E h \in Handles : DropHandle(h)
  \/ SupervisorNext
  \/ \E w \in Workers : WorkerCancelled(w)
  \/ \E w \in Workers : WorkerBeginFetch(w)
  \/ \E w \in Workers : WorkerBeginForward(w)
  \/ \E w \in Workers, o \in {"Ok", "fatal"} : WorkerAttemptEnds(w, o)

Spec == Init /\ [][Next]_vars

\* LiveSpec: Spec with the supervisor task polled whenever it is woken and
\* select! choosing among its ready branches at random, so that the rx branch
\* is not passed over for ever while a command is queued
LiveSpec == Init /\ [][Next]_vars /\ WF_vars(Dispatch("suspended") \/ Dispatch("midpoll"))

\* an account no handle has registered yet
Fresh(account_id) ==
  /\ pollers[account_id] = 0
  /\ \A i \in 1 .. Len(mailbox) : mailbox[i][1] # account_id

\* WorkerSpec: every account registers once, and the collaborators answer
\* Ok, with a transient error or with a non-transient one
WorkerNext ==
  \/ \E h \in Handles, p \in Pair :
       Fresh(p[1]) /\ try_start_polling(h, p[1], p[2])
  \/ \E h \in Handles : DropHandle(h)
  \/ SupervisorNext
  \/ \E w \in Workers : WorkerBeginFetch(w)
  \/ \E w \in Workers : WorkerBeginForward(w)
  \/ \E w \in Workers, o \in {"Ok"} \cup Sources : WorkerAttemptEnds(w, o)

WorkerSpec == Init /\ [][WorkerNext]_vars

\* ReplaceSpec: one handle registers K1 again and again while the
\* collaborators answer Ok, with a non-transient error, or with up to MaxRun
\* transient errors in a row
ReplaceNext ==
  \/ \E c \in Tokens :
       InFlight < MaxRegs /\ try_start_polling("h1", "K1", c)
  \/ \E found \in {"suspended", "midpoll"} : Dispatch(found)
  \/ \E w \in Workers : ObserveChild(w)
  \/ \E w \in Workers : WorkerCancelled(w)
  \/ \E w \in Workers : WorkerBeginFetch(w)
  \/ \E w \in Workers : WorkerBeginForward(w)
  \/ \E w \in Workers, o \in {"Ok"} \cup Sources :
       /\ o = "transient" => wrun[w] < MaxRun
       /\ WorkerAttemptEnds(w, o)

ReplaceSpec == Init /\ [][ReplaceNext]_vars

\* the registrations handle h submits under BackpressureSpec: its own account
\* under alternating credentials, so that every pair shows who sent it and
\* where in the list it was
BootAccount(h) == IF h = "h1" THEN "K1" ELSE "K2"
BootList(h, n) ==
  [i \in 1 .. n |-> <<BootAccount(h), IF i % 2 = 1 THEN "c1" ELSE "c2">>]

\* the pairs the supervisor has dispatched, in dispatch order
Dispatched == [w \in 1 .. nworkers |-> <<wacct[w], wtoken[w]>>]

\* the pairs of handle h's account: dispatched, queued, or still to be sent
SentBy(h) ==
  LET mine(p) == p[1] = BootAccount(h)
  IN SelectSeq(Dispatched \o mailbox \o hpending[h], mine)

\* BackpressureSpec: each handle makes one call, of up to MaxBoot pairs, and
\* the supervisor drains the channel; the workers stay at their first poll
BackpressureNext ==
  \/ \E h \in Handles, n \in 2 .. MaxBoot :
       /\ SentBy(h) = <<>>
       /\ InFlight + n <= MaxBoot
       /\ try_start_many(h, BootList(h, n))
  \/ \E h \in Handles :
       /\ SentBy(h) = <<>>
       /\ InFlight < MaxBoot
       /\ try_start_polling(h, BootAccount(h), "c1")
  \/ \E h \in Handles : SendStep(h)
  \/ nworkers < MaxRegs /\ Dispatch("suspended")

BackpressureSpec == Init /\ [][BackpressureNext]_vars

\* BreakerSpec: Breaker::check fed every sequence of outcomes
DeliveryNext ==
  \/ \E x \in Items : SourceNewItem(x)
  \/ \E ok \in BOOLEAN : DeliveryFetch(ok)
  \/ add_new_notifications
  \/ \E ok \in BOOLEAN : notify(ok)

\* the runtime keeps polling the worker's task: its next step is always taken
DeliverySpec == Init /\ [][DeliveryNext]_vars /\ WF_vars(DeliveryWorker)

\* RegisterSpec: boot, the register flows and the supervisor's rx branch over
\* one database, across a restart; the workers stay at their first poll
RegisterNext ==
  \/ \E l \in RowLists(db_registrations) : BootStart(l)
  \/ BootReturns
  \/ \E f \in Flows, p \in Pair : RegisterBegin(f, p[1], p[2])
  \/ \E f \in Flows, ok \in BOOLEAN : RegisterPersist(f, ok)
  \/ \E f \in Flows : RegisterStart(f)
  \/ SendStep("h1")
  \/ \E found \in {"suspended", "midpoll"} : Dispatch(found)
  \/ Restart

RegisterSpec == Init /\ [][RegisterNext]_vars

\* SessionSpec: requests to oauth/stackoverflow/begin and .../complete that
\* carry the cookie of one session, two of them at a time
SessionNext ==
  \/ \E r \in Requests : SessionFilter(r, "begin", NoState)
  \/ \E r \in Requests, given \in GivenStates : SessionFilter(r, "complete", given)
  \/ \E r \in Requests : begin(r)
  \/ \E r \in Requests : complete(r)
  \/ \E r \in Requests, ok \in BOOLEAN, account_id \in Accounts :
       complete_registered(r, ok, account_id)

SessionSpec == Init /\ [][SessionNext]_vars

BreakerNext == \E r \in AttemptResults : Feed(r)

BreakerSpec == Init /\ [][BreakerNext]_vars

\* ActorSpec: two callers of one generated actor whose operation may panic
ActorNext ==
  \/ \E c \in Callers : try_op(c)
  \/ \E c \in Callers : Resolve(c)
  \/ \E c \in Callers : Abandon(c)
  \/ \E c \in Callers : DropActorHandle(c)
  \/ ActorServe
  \/ ActorPanics
  \/ ActorLoopEnds

ActorSpec == Init /\ [][ActorNext]_vars

----------------------------------------------------------------------------
(* Properties of the poll spawner under replacement (Spec) *)

\* the workers of account k whose task has not completed
RunningFor(k) == {w \in Workers : wacct[w] = k /\ wstate[w] = "Running"}

\* C1 as stated: once a registration for K is processed, at most one worker
\* of K is Running.  A worker that abort() found suspended does nothing more
\* and is counted as terminated here; one that abort() found inside a poll is
\* still executing that poll.
C1_OneRunningPerAccount ==
  \A k \in Accounts :
    Cardinality({w \in RunningFor(k) : aborted[w] # "suspended"}) <= 1

\* C1 amended: of the workers of K that are Running, at most one has not
\* been told to stop, and it is the one the table holds for K
C1_OneLivePerAccount ==
  \A k \in Accounts :
    \A w \in RunningFor(k) : aborted[w] = "no" => pollers[k] = w

\* C1 witness: a replacement was processed while the old worker was inside a
\* poll, and both tasks are still there
C1_Replaced ==
  \E w \in Workers, v \in Workers :
    /\ w # v
    /\ wstate[w] = "Running" /\ aborted[w] = "midpoll"
    /\ wstate[v] = "Running" /\ aborted[v] = "no"
    /\ wacct[w] = wacct[v]
    /\ pollers[wacct[w]] = v

\* C2 as stated: no fetch by W1 begins after the supervisor has processed the
\* command that replaces W1
C2_NoFetchAfterReplace ==
  [][\A w \in Workers : aborted[w] # "no" => ~WorkerBeginFetch(w)]_vars

\* C2 amended: a replaced worker is Terminated by the end of the first poll
\* that abort() interrupts or precedes: any step it takes ends its task, and
\* it begins a fetch in that step only if abort() found it inside the poll
C2_TerminatedWithinOnePoll ==
  [][\A w \in Workers :
       (wstate[w] = "Running" /\ aborted[w] # "no") =>
         /\ aborted'[w] = aborted[w]
         /\ \/ wstate'[w] \in {"Cancelled", "Failed"}
            \/ wstate'[w] = "Running" /\ wpc'[w] = wpc[w] /\ breaker'[w] = breaker[w]
         /\ aborted[w] = "suspended" => ~WorkerBeginFetch(w)]_vars

\* C2 witness: a worker replaced while suspended has been cancelled, and the
\* table holds its successor
C2_CancelledOnReplace ==
  \E w \in Workers :
    /\ wstate[w] = "Cancelled"
    /\ aborted[w] = "suspended"
    /\ pollers[wacct[w]] \notin {0, w}

\* C3 as stated: when the supervisor observes the completion of a worker
\* whose table entry was already replaced, it keeps running
C3_SupersededIgnored ==
  [][\A w \in Workers :
       (ObserveChild(w) /\ pollers[wacct[w]] # w) => supState' = "Running"]_vars

\* C5: the supervisor task never returns Ok(()); it runs or has ended with
\* an error or a panic, and once it has ended the process can only exit with
\* a non-zero status
C5_NeverSucceeds ==
  /\ supState \in {"Running", "Errored", "Panicked"}
  /\ procState = "Up" => exitCode = -1 /\ coreErr = "-"
  /\ procState = "Exited" =>
       /\ supState # "Running"
       /\ coreErr \in {"PollSpawnerFailed", "PollSpawnerErrored"}
       /\ exitCode = 1

\* C5 witness: the supervisor ended on a worker's error and the process exited
C5_ExitedOnError ==
  /\ procState = "Exited"
  /\ supState = "Errored"
  /\ coreErr = "PollSpawnerErrored"
  /\ exitCode = 1
  /\ \E w \in Workers : wstate[w] = "Cancelled"

\* the workers spawned for account k, in the order of their dispatch
SpawnedFor(k) == {w \in 1 .. nworkers : wacct[w] = k}

\* the worker dispatched last
Latest(ws) == CHOOSE w \in ws : \A v \in ws : v <= w

\* C14: the supervisor takes the pairs in the order they entered the
\* channel, and the pair of an account dispatched last supersedes the ones
\* before it: the table entry of the account is the last-dispatched worker,
\* which runs with the credential of that pair and has not been told to stop,
\* and every worker dispatched earlier for the account has been aborted
C14_SecondSupersedes ==
  /\ [](\A k \in Accounts :
          SpawnedFor(k) # {} =>
            /\ pollers[k] = Latest(SpawnedFor(k))
            /\ aborted[pollers[k]] = "no"
            /\ \A w \in SpawnedFor(k) \ {pollers[k]} :
                 aborted[w] # "no" /\ wstate[w] # "Unspawned")
  /\ [][nworkers' # nworkers =>
          /\ nworkers' = nworkers + 1
          /\ mailbox # <<>> /\ mailbox' = Tail(mailbox)
          /\ <<wacct'[nworkers'], wtoken'[nworkers']>> = Head(mailbox)
          /\ wstate'[nworkers'] = "Running"
          /\ pollers'[Head(mailbox)[1]] = nworkers']_vars

\* C14 witness: two registrations of K1 were queued together; the one under
\* c2 was dispatched first and its worker has been cancelled, the one under
\* c1 second and its worker runs
C14_RaceDecided ==
  /\ nworkers = 2
  /\ Dispatched = <<(<<"K1", "c2">>), (<<"K1", "c1">>)>>
  /\ pollers["K1"] = 2
  /\ wstate[1] = "Cancelled" /\ wstate[2] = "Running"
  /\ hstate = [h \in Handles |-> "idle"]

\* C16 as stated: when the pair dispatched is the one the account's running
\* worker already has, exactly one worker of the account is Running
\* afterwards (a worker that abort() found suspended counted as terminated)
C16_OneRunningAfterRepeat ==
  [][\A v \in Workers :
       ( /\ nworkers' = nworkers + 1
         /\ v = pollers[Head(mailbox)[1]]
         /\ wstate[v] = "Running"
         /\ <<wacct[v], wtoken[v]>> = Head(mailbox) )
       => Cardinality({w \in Workers :
                         /\ wacct'[w] = wacct[v]
                         /\ wstate'[w] = "Running"
                         /\ aborted'[w] # "suspended"}) = 1]_vars

\* C16 amended: dispatching the pair the account's running worker already
\* has leaves the table with the same accounts, one entry for K, and exactly
\* one worker of K that is Running and has not been told to stop: a new
\* worker with the same credential, the previous one having been aborted
C16_RepeatReplaces ==
  [][\A v \in Workers :
       ( /\ nworkers' = nworkers + 1
         /\ v = pollers[Head(mailbox)[1]]
         /\ wstate[v] = "Running"
         /\ <<wacct[v], wtoken[v]>> = Head(mailbox) )
       => /\ {k \in Accounts : pollers'[k] # 0} = {k \in Accounts : pollers[k] # 0}
          /\ pollers'[wacct[v]] = nworkers'
          /\ aborted'[v] # "no"
          /\ {w \in Workers : /\ wacct'[w] = wacct[v]
                               /\ wstate'[w] = "Running"
                               /\ aborted'[w] = "no"} = {nworkers'}
          /\ wtoken'[nworkers'] = wtoken[v]]_vars

\* C16 witness: (K1, c1) was dispatched twice in a row; the table holds the
\* second worker, the first has been cancelled
C16_DispatchedTwice ==
  /\ Dispatched = <<(<<"K1", "c1">>), (<<"K1", "c1">>)>>
  /\ pollers = [k \in Accounts |-> IF k = "K1" THEN 2 ELSE 0]
  /\ wstate[1] = "Cancelled" /\ wstate[2] = "Running"
  /\ aborted[2] = "no"

\* C18: an attempt that ends leaves the worker Running exactly when it
\* succeeded or failed transiently below the threshold; a non-transient
\* failure ends the worker with that failure, the transient failure that
\* reaches the threshold ends it with TooManyTransientFailures; a worker's
\* task never ends otherwise than with an Err
C18_WorkerStateMachine ==
  /\ [](\A w \in Workers :
          /\ wstate[w] \in {"Unspawned", "Running", "Failed"}
          /\ wstate[w] = "Failed" <=> werr[w] # NoError
          /\ wstate[w] = "Failed" <=> wpc[w] = "end")
  /\ [][\A w \in Workers, o \in {"Ok"} \cup Sources :
          WorkerAttemptEnds(w, o) =>
            LET suppressed == o = "transient" /\ breaker[w] + 1 < BreakerThreshold
                tripped == o = "transient" /\ breaker[w] + 1 >= BreakerThreshold
            IN /\ wstate'[w] = "Running" <=> (o = "Ok" \/ suppressed)
               /\ wstate'[w] = "Running" => werr'[w] = NoError
               /\ o = "fatal" =>
                    /\ wstate'[w] = "Failed"
                    /\ werr'[w] = <<(IF wpc[w] = "fetch"
                                       THEN "UnableToGetUnreadNotifications"
                                       ELSE "UnableToSendNotifications"), "fatal">>
               /\ tripped =>
                    /\ wstate'[w] = "Failed"
                    /\ werr'[w] = <<"TooManyTransientFailures", "BreakerError">>]_vars

\* C18 witness: one worker ended on the tenth transient failure in a row, the
\* other on a non-transient failure of the forward
C18_BothFailures ==
  /\ wstate[1] = "Failed" /\ wstate[2] = "Failed"
  /\ werr[1] = TooManyTransientFailures
  /\ werr[2] = UnableToSendNotifications("fatal")

\* C19: an attempt that leaves the worker Running leaves it at the delay,
\* and a fetch is begun only by a worker that has not made an attempt yet or
\* by one whose delay is over: never straight after an attempt
C19_SleepBetweenFetches ==
  [][\A w \in Workers :
       /\ \A o \in {"Ok"} \cup Sources :
            (WorkerAttemptEnds(w, o) /\ wstate'[w] = "Running") => wpc'[w] = "sleep"
       /\ (wpc[w] \in {"fetch", "forward"} /\ wstate'[w] = "Running") =>
            wpc'[w] \in {wpc[w], "forward", "sleep"}
       /\ (wpc'[w] = "fetch" /\ wpc[w] # "fetch") => wpc[w] \in {"start", "sleep"}
       /\ wpc'[w] = "start" => wpc[w] = "start"
       /\ wpc[w] = "forward" => wpc'[w] # "fetch"]_vars

\* C19 witness: a worker is fetching again after a suppressed transient
\* failure and the delay that followed it
C19_RetryAfterSleep ==
  \E w \in Workers :
    /\ wstate[w] = "Running"
    /\ wpc[w] = "fetch"
    /\ breaker[w] = 1 /\ wrun[w] = 1

----------------------------------------------------------------------------
(* Properties of the delivery path (DeliverySpec) *)

\* C17: every item a fetch returned to the worker is eventually accepted by
\* the sink, the worker running and the sink accepting from some point on
C17_AtLeastOnce == \A x \in Items : (x \in dSeen) ~> (x \in dDelivered)

\* C20: a worker whose cancellation has been observed (its task completed
\* with Err(Aborted)) was aborted, holds no error and no breaker, and takes
\* no further step; and a poll of a worker that has been told to stop never
\* leaves it Running at another await: it ends Cancelled, or, when abort()
\* came inside that very poll, possibly with the Err the attempt returned
\* before the flag was looked at
C20_NoEffectAfterCancel ==
  /\ [](\A w \in Workers :
          wstate[w] = "Cancelled" =>
            /\ aborted[w] # "no"
            /\ werr[w] = NoError
            /\ wpc[w] = "end" /\ breaker[w] = 0)
  /\ [][\A w \in Workers :
          /\ wstate[w] = "Cancelled" =>
               /\ wstate'[w] = "Cancelled" /\ wpc'[w] = "end"
               /\ breaker'[w] = 0 /\ werr'[w] = NoError
               /\ ~WorkerBeginFetch(w) /\ ~WorkerBeginForward(w)
               /\ \A o \in {"Ok"} \cup Sources : ~WorkerAttemptEnds(w, o)
          /\ ( /\ wstate[w] = "Running" /\ aborted[w] # "no"
               /\ <<wstate'[w], wpc'[w], breaker'[w]>> # <<wstate[w], wpc[w], breaker[w]>> )
               => \/ wstate'[w] = "Cancelled" /\ werr'[w] = NoError
                  \/ wstate'[w] = "Failed" /\ aborted[w] = "midpoll"]_vars

\* C20 witness: a worker was aborted inside the poll that began its forward,
\* has been cancelled at the end of that poll, and its successor is running
C20_CancelledMidPoll ==
  \E w \in Workers :
    /\ wstate[w] = "Cancelled" /\ aborted[w] = "midpoll"
    /\ pollers[wacct[w]] \notin {0, w}
    /\ wstate[pollers[wacct[w]]] = "Running"
    /\ wpc[pollers[wacct[w]]] = "forward"

----------------------------------------------------------------------------
(* Properties of the workers and their breakers (WorkerSpec) *)

\* C4 as stated: the supervisor's task resolves with the error of every
\* worker that was not superseded and terminated with a fatal error
C4_ResolvesWithEveryError ==
  \A w \in Workers :
    (wstate[w] = "Failed" /\ pollers[wacct[w]] = w /\ supState # "Running")
      => supErr = werr[w]

\* C4 amended: a failed worker is either still pending in `children` of the
\* running supervisor, or the supervisor has failed; a failed supervisor
\* carries, unmodified, the error of the one failed worker it observed, and
\* the errors of the other failed workers are left in `children`
C4_FirstObservedError ==
  /\ \A w \in Workers :
       wstate[w] = "Failed" =>
         \/ supState = "Running" /\ w \in children
         \/ supState = "Errored"
  /\ supState = "Errored" =>
       \E w \in Workers :
         /\ wstate[w] = "Failed" /\ w \notin children
         /\ supErr = werr[w]
         /\ \A v \in Workers \ {w} : wstate[v] = "Failed" => v \in children
  /\ supState # "Errored" => supErr = NoError

\* C4 witness: the supervisor failed with the breaker error of a worker it
\* observed
C4_FailedOnTrip ==
  \E w \in Workers :
    /\ wstate[w] = "Failed" /\ w \notin children
    /\ pollers[wacct[w]] = w
    /\ werr[w] = TooManyTransientFailures
    /\ supState = "Errored" /\ supErr = werr[w]

\* C9: while every worker has seen only successes and runs of fewer than 10
\* transient failures in a row, no worker has terminated and the supervisor
\* has not failed (it runs as long as it has a worker); and no worker and no
\* supervisor ever ends with a transient collaborator error
C9_TransientContained ==
  /\ \A w \in Workers :
       (~wfatal[w] /\ ~wlong[w]) => wstate[w] \in {"Unspawned", "Running"}
  /\ (\A w \in Workers : ~wfatal[w] /\ ~wlong[w]) =>
       /\ supState # "Errored"
       /\ nworkers >= 1 => supState = "Running"
  /\ \A w \in Workers : ~is_transient(werr[w])
  /\ ~is_transient(supErr)

\* C9 witness: a worker is still running, under a running supervisor, after
\* 9 transient failures in a row
C9_NineInARow ==
  \E w \in Workers :
    /\ wstate[w] = "Running"
    /\ wrun[w] = 9 /\ breaker[w] = 9
    /\ ~wfatal[w] /\ ~wlong[w]
    /\ supState = "Running"

----------------------------------------------------------------------------
(* Properties of the bounded channel (BackpressureSpec) *)

\* C11: a send that finds the channel holding its buffer of 10 leaves the
\* sender parked with the pair queued; a parked sender makes no progress and
\* its call does not return until a step in which the supervisor takes a pair
\* out; its pairs are neither lost nor reordered meanwhile; and a sender is
\* parked only while the channel is full, so a call that is not parked can
\* always go on
C11_Backpressure ==
  /\ [](\A h \in Handles :
          /\ InParked(h) => hstate[h] = "calling"
          /\ hstate[h] = "calling" => InParked(h) \/ hpending[h] # <<>>)
  /\ [](parked # <<>> => Len(mailbox) >= 10 + Len(parked))
  /\ [][\A h \in Handles :
          /\ ( /\ Len(mailbox) >= 10
               /\ Len(mailbox') = Len(mailbox) + 1
               /\ <<hstate[h], hpending[h]>> # <<hstate'[h], hpending'[h]>> )
               => InParked(h)' /\ hstate'[h] = "calling"
          /\ InParked(h) =>
               /\ \/ hstate'[h] = "calling" /\ hpending'[h] = hpending[h]
                  \/ mailbox # <<>> /\ mailbox' = Tail(mailbox)
               /\ SentBy(h)' = SentBy(h)]_vars

\* C15: the pairs of a list given to try_start_many enter the channel and
\* are dispatched in list order: from the call on, the pairs of the handle
\* that are dispatched, queued or still to be sent are, in that order, the
\* list; and once they are all dispatched the table entry of their account
\* is the worker of the last pair, the only one of them not told to stop
C15_ListOrder ==
  /\ [][\A h \in Handles, n \in 1 .. MaxBoot :
          try_start_many(h, BootList(h, n)) => SentBy(h)' = BootList(h, n)]_vars
  /\ [][\A h \in Handles : SentBy(h) # <<>> => SentBy(h)' = SentBy(h)]_vars
  /\ [](\A h \in Handles :
          (SentBy(h) # <<>> /\ SentBy(h) = SelectSeq(Dispatched, LAMBDA p : p[1] = BootAccount(h))) =>
            LET w == pollers[BootAccount(h)]
            IN /\ w # 0
               /\ <<wacct[w], wtoken[w]>> = SentBy(h)[Len(SentBy(h))]
               /\ \A v \in 1 .. nworkers :
                    (wacct[v] = BootAccount(h) /\ aborted[v] = "no") => v = w)

\* C15 witness: h1 gave the list (K1, c1), (K1, c2); both pairs are
\* dispatched and the table holds the worker of the second
C15_LastPairWins ==
  /\ Dispatched = BootList("h1", 2)
  /\ SentBy("h1") = BootList("h1", 2)
  /\ pollers["K1"] = 2
  /\ wtoken[2] = "c2"
  /\ aborted[1] = "suspended" /\ aborted[2] = "no"

\* C11 witness: h1 sent its 11th pair into a channel of 10 and its call has
\* returned after the supervisor took one pair out
C11_ResumedAfterDrain ==
  /\ hstate["h1"] = "idle"
  /\ hpending["h1"] = <<>>
  /\ SentBy("h1") = BootList("h1", 11)
  /\ nworkers = 1
  /\ Len(mailbox) = 10
  /\ parked = <<>>

----------------------------------------------------------------------------
(* Properties of Breaker::check (BreakerSpec) *)

\* C6: a transient failure is suppressed iff counter + 1 < 10 and trips iff
\* counter + 1 >= 10, and is counted; from counter 0 the first 9 transient
\* failures in a row are suppressed with the counter at their number, and
\* the 10th trips
C6_SuppressThenTrip ==
  /\ (bkFeeds >= 1 /\ is_transient(bkIn)) =>
       /\ bk = bkPrev + 1
       /\ bkOut.ret = "Suppressed" <=> bkPrev + 1 < 10
       /\ bkOut.ret = "Tripped" <=> bkPrev + 1 >= 10
  /\ (bkLead = bkFeeds /\ bkFeeds \in 1 .. 9) =>
       bkOut.ret = "Suppressed" /\ bk = bkFeeds
  /\ (bkLead = bkFeeds /\ bkFeeds = 10) => bkOut.ret = "Tripped"

\* C6 witness: ten transient failures were fed to a new breaker
C6_TenthTrips ==
  /\ bkLead = 10 /\ bkFeeds = 10
  /\ bkPrev = 9
  /\ bkOut.ret = "Tripped"

\* C7: a success sets the counter to 0 and is passed on as Ok(Some(Ok));
\* a run of fewer than 10 transient failures after a success is suppressed
C7_SuccessResets ==
  /\ (bkFeeds >= 1 /\ bkIn = OkResult) =>
       bk = 0 /\ bkOut.ret = "Ran" /\ bkOut.val = OkResult
  /\ bkRunAfterOk \in 1 .. 9 => bkOut.ret = "Suppressed" /\ bk = bkRunAfterOk

\* C7 witness: transient, transient, success, then 9 transient failures
C7_NineAfterReset ==
  /\ bkFeeds = 12
  /\ bkLead = 2
  /\ bkRunAfterOk = 9
  /\ bkOut.ret = "Suppressed"

\* C8: a non-transient failure is passed on as Ok(Some(Err(e))) with the
\* same error and leaves the counter as it was
C8_FatalPassesThrough ==
  (bkFeeds >= 1 /\ bkIn # OkResult /\ ~is_transient(bkIn)) =>
    /\ bkOut.ret = "Ran"
    /\ bkOut.val = bkIn
    /\ bk = bkPrev

\* C8 witness: a non-transient failure met a counter of 9
C8_FatalAtNine ==
  /\ bkIn = UnableToSendNotifications("fatal")
  /\ bkPrev = 9 /\ bk = 9
  /\ bkOut.ret = "Ran"

----------------------------------------------------------------------------
(* Properties of the generated actor (ActorSpec) *)

\* C10: a call whose reply slot is still open has its command queued at a
\* running actor, so a call never waits on an actor that is gone; a finished
\* try_<name> returned ActorError exactly when its reply Sender was dropped
\* without a value (the mailbox was closed at the call, or the actor ended
\* before answering), and otherwise the value the actor computed
C10_ActorGone ==
  \A c \in Callers :
    /\ (cstate[c] = "awaiting" /\ slot[c] = <<"open">>) =>
         /\ actorState = "Running"
         /\ \E i \in 1 .. Len(amailbox) : amailbox[i] = <<c, ccalls[c]>>
    /\ (cstate[c] = "idle" /\ ccalls[c] >= 1 /\ slot[c] # <<"abandoned">>) =>
         /\ cresult[c] = ActorError <=> slot[c] = <<"dropped">>
         /\ cresult[c] # ActorError =>
              /\ slot[c][1] = "value"
              /\ cresult[c] = <<"Ok", slot[c][2]>>
              /\ slot[c][2] \in 1 .. actorCount
         /\ cwhen[c] # "Running" => cresult[c] = ActorError

\* C10 witness: a call made while the actor ran returned ActorError, and a
\* call made after the actor ended returned it too
C10_BothGone ==
  \E c \in Callers, d \in Callers :
    /\ cstate[c] = "idle" /\ cwhen[c] = "Running" /\ cresult[c] = ActorError
    /\ cstate[d] = "idle" /\ cwhen[d] = "Panicked" /\ cresult[d] = ActorError

\* C12: the dispatch loop takes the commands out in arrival order, one per
\* turn: a turn runs one operation, on the oldest command, and answers at
\* most that command's caller; so the commands of one handle are processed
\* in the order of its calls, none skipped
C12_FifoDispatch ==
  /\ [](\A i \in 1 .. Len(amailbox), j \in 1 .. Len(amailbox) :
          (i < j /\ amailbox[i][1] = amailbox[j][1]) =>
            /\ amailbox[i][2] < amailbox[j][2]
            /\ alast[amailbox[i][1]] < amailbox[i][2])
  /\ [][actorCount' # actorCount =>
          /\ actorCount' = actorCount + 1
          /\ amailbox # <<>>
          /\ amailbox' = Tail(amailbox)
          /\ alast' = [alast EXCEPT ![Head(amailbox)[1]] = Head(amailbox)[2]]
          /\ \A c \in Callers :
               slot'[c] # slot[c] =>
                 c = Head(amailbox)[1] /\ slot'[c] = <<"value", actorCount + 1>>]_vars
  /\ [][\A c \in Callers : alast'[c] \in {alast[c], alast[c] + 1}]_vars

\* C12 witness: a1 gave up its first call and called again; the loop ran
\* three operations, a1's second call being the third
C12_SecondCallServedLast ==
  /\ alast["a1"] = 2
  /\ alast["a2"] = 1
  /\ cresult["a1"] = <<"-">>
  /\ slot["a1"] = <<"value", 3>>

\* C13: the dispatch loop returns only when every handle clone is dropped
\* and the mailbox is empty, and in that state it can return; it has not
\* returned while a handle is alive or a command is queued
C13_LoopTermination ==
  /\ [][(actorState = "Running" /\ actorState' = "Ended") =>
          ahandles = {} /\ amailbox = <<>>]_vars
  /\ [](actorState = "Ended" => ahandles = {} /\ amailbox = <<>>)
  /\ []((actorState = "Running" /\ ahandles = {} /\ amailbox = <<>>) =>
          ENABLED ActorLoopEnds)

\* C13 witness: the loop has returned after running the command of a call
\* its caller had given up
C13_EndedAfterDrain ==
  /\ actorState = "Ended"
  /\ \E c \in Callers : alast[c] = 2 /\ slot[c] = <<"abandoned">>

----------------------------------------------------------------------------
(* Further properties of the supervisor (Spec) *)

\* C21: a worker is told to stop, and so ends Cancelled, only through the
\* dispatch of a later registration of its own account while it holds the
\* table entry: no other step sets its abort flag, and a worker never ends
\* Cancelled without the flag
C21_OnlyReRegistrationCancels ==
  /\ [](\A w \in Workers :
          (wstate[w] = "Cancelled" \/ aborted[w] # "no") =>
            /\ aborted[w] # "no"
            /\ \E v \in (w + 1) .. nworkers : wacct[v] = wacct[w])
  /\ [][\A w \in Workers :
          aborted'[w] # aborted[w] =>
            /\ aborted[w] = "no"
            /\ pollers[wacct[w]] = w
            /\ nworkers' = nworkers + 1
            /\ mailbox # <<>> /\ Head(mailbox)[1] = wacct[w]
            /\ wacct'[nworkers'] = wacct[w]]_vars

\* C21 witness: the worker of K1 runs on, not told to stop, although a
\* registration of K2 was dispatched, K2's worker failed, the supervisor
\* returned that error and a handle was dropped
C21_OthersLeaveItAlone ==
  /\ nworkers = 2
  /\ wacct[1] = "K1" /\ wacct[2] = "K2"
  /\ wstate[1] = "Running" /\ aborted[1] = "no"
  /\ wstate[2] = "Failed"
  /\ supState = "Errored"
  /\ handles # Handles

\* C22: a worker is spawned only by the dispatch of one command, one worker
\* for each command taken out of the channel, and a worker that has ended
\* (Cancelled or Failed) never runs again: a later registration of its
\* account gets a new worker
C22_NoRestart ==
  [][/\ nworkers' # nworkers =>
          /\ nworkers' = nworkers + 1
          /\ mailbox # <<>> /\ mailbox' = Tail(mailbox)
     /\ (supState' = "Running" /\ mailbox' # mailbox /\ Len(mailbox') < Len(mailbox)) =>
          nworkers' = nworkers + 1
     /\ \A w \in Workers :
          /\ wstate[w] \in {"Cancelled", "Failed"} =>
               wstate'[w] = wstate[w] /\ wpc'[w] = "end"
          /\ (wstate[w] # "Running" /\ wstate'[w] = "Running") =>
               wstate[w] = "Unspawned" /\ w = nworkers + 1 /\ nworkers' = w]_vars

\* C22 witness: the supervisor has taken the completion of a cancelled
\* worker out of children and runs on; that worker stays ended, its
\* account polled by the worker of the later registration
C22_EndedStaysEnded ==
  /\ nworkers = 2
  /\ wacct[1] = wacct[2]
  /\ wstate[1] = "Cancelled" /\ 1 \notin children
  /\ wstate[2] = "Running"
  /\ supState = "Running"

\* the workers that exited on their own and still hold their account's entry
Stale == {w \in Workers : wstate[w] = "Failed" /\ pollers[wacct[w]] = w}

\* C23 as stated: a start_polling for an account whose entry is stale is
\* served: its send does not find the channel closed
C23_StaleEntryStillServed ==
  [][\A h \in Handles :
       ( /\ hpending[h] # <<>>
         /\ \E w \in Stale : Head(hpending[h])[1] = wacct[w] )
       => ~SendFails(h)]_vars

\* C23 amended: an entry is never removed, so a worker that exited on its
\* own keeps its entry; a registration of that account dispatched before the
\* supervisor has taken the worker's completion out of children overwrites
\* the entry with a new Running worker and leaves the old one as it ended;
\* once the supervisor has taken the completion it has returned the error
\* and dispatches nothing more
C23_OverwriteBeforeObserved ==
  /\ [](\A w \in Workers :
          (wstate[w] = "Failed" /\ w \notin children) => supState = "Errored")
  /\ [][/\ \A k \in Accounts : pollers[k] # 0 => pollers'[k] # 0
        /\ supState # "Running" => nworkers' = nworkers /\ pollers' = pollers
        /\ \A w \in Workers :
             /\ (wstate[w] = "Running" /\ wstate'[w] = "Failed") => pollers' = pollers
             /\ (w \in Stale /\ nworkers' = nworkers + 1 /\ wacct'[nworkers'] = wacct[w]) =>
                  /\ w \in children /\ supState = "Running"
                  /\ pollers'[wacct[w]] = nworkers'
                  /\ wstate'[nworkers'] = "Running"
                  /\ wstate'[w] = "Failed" /\ werr'[w] = werr[w]]_vars

\* C23 witness: the first worker of an account failed and its completion is
\* still in children; a later registration of the account has been
\* dispatched over its entry and the new worker runs
C23_StaleOverwritten ==
  /\ nworkers = 2
  /\ wacct[1] = wacct[2]
  /\ wstate[1] = "Failed" /\ 1 \in children
  /\ aborted[1] # "no"
  /\ pollers[wacct[1]] = 2
  /\ wstate[2] = "Running"
  /\ supState = "Running"

----------------------------------------------------------------------------
(* Further properties of the delivery path (DeliverySpec) *)

\* C24: the sink is called only after a fetch that returned items, only
\* with a non-empty list of them, and only with items that were not in the
\* table before this attempt recorded them; an item the sink accepts was not
\* accepted before
C24_SinkGetsNewItemsOnly ==
  /\ [](dpc = "notify" => dFetched # {} /\ dNew # {} /\ dNew \subseteq dFetched)
  /\ [](dDelivered \subseteq dRecorded)
  /\ [][/\ (dpc # "notify" /\ dpc' = "notify") =>
             /\ dpc = "fetched"
             /\ dNew' = dFetched \ dRecorded
             /\ dNew' \cap dDelivered = {}
        /\ \A ok \in BOOLEAN : notify(ok) => dNew # {} /\ dNew \cap dDelivered = {}
        /\ dDelivered' # dDelivered =>
             dpc = "notify" /\ dDelivered' = dDelivered \cup dNew]_vars

\* C24 witness: a second attempt fetched an item already delivered together
\* with one that is new, and the sink is about to be called with the new
\* one alone
C24_OnlyTheNewOne ==
  /\ dpc = "notify"
  /\ dDelivered # {}
  /\ dDelivered \subseteq dFetched
  /\ dNew # {}
  /\ dNew = dFetched \ dDelivered

----------------------------------------------------------------------------
(* Further properties of the actor (ActorSpec) *)

\* the call the oldest queued command belongs to has been given up
HeadAbandoned ==
  amailbox # <<>> /\ ~Awaits(Head(amailbox)[1], Head(amailbox)[2])

\* C25: the loop runs the operation of a command whose caller has stopped
\* waiting like any other: the operation is executed, no reply slot changes,
\* the task stays alive, the command leaves the queue, and the loop is ready
\* for the commands behind it
C25_FailedReplyIgnored ==
  /\ [][(ActorServe /\ HeadAbandoned) =>
          /\ actorCount' = actorCount + 1
          /\ actorState' = "Running"
          /\ slot' = slot
          /\ amailbox' = Tail(amailbox)]_vars
  /\ []((actorState = "Running" /\ amailbox # <<>>) => ENABLED ActorServe)

\* C25 witness: a1 gave up its call, the loop ran its command all the same,
\* and then ran the command of a2 behind it and delivered its reply
C25_ServedAfterAbandoned ==
  /\ slot["a1"] = <<"abandoned">>
  /\ ccalls["a1"] = 1 /\ alast["a1"] = 1
  /\ slot["a2"] = <<"value", 2>>
  /\ actorState = "Running"

\* C26: a command is queued once and taken out once, in the order of its
\* caller's calls; a reply slot gets a value only while it is open, only in
\* the turn that runs the command of that very call, and the value is the
\* result of that run; once it holds a value it keeps it until the caller
\* drops the call or makes its next one
C26_RepliesPaired ==
  /\ [](/\ \A i, j \in 1 .. Len(amailbox) : amailbox[i] = amailbox[j] => i = j
        /\ \A i \in 1 .. Len(amailbox) :
             /\ amailbox[i][2] > alast[amailbox[i][1]]
             /\ amailbox[i][2] <= ccalls[amailbox[i][1]])
  /\ [][\A c \in Callers :
          /\ alast'[c] # alast[c] =>
               /\ amailbox # <<>> /\ Head(amailbox) = <<c, alast'[c]>>
               /\ alast'[c] > alast[c]
               /\ amailbox' = Tail(amailbox)
          /\ (slot'[c] # slot[c] /\ slot'[c][1] = "value") =>
               /\ slot[c] = <<"open">> /\ cstate[c] = "awaiting"
               /\ amailbox # <<>> /\ Head(amailbox) = <<c, ccalls[c]>>
               /\ slot'[c] = <<"value", actorCount'>>
               /\ actorCount' = actorCount + 1
          /\ (slot[c][1] = "value" /\ slot'[c] # slot[c]) =>
               \/ ccalls'[c] = ccalls[c] + 1
               \/ slot'[c] = <<"abandoned">> /\ cstate[c] = "awaiting"
          /\ cresult'[c] # cresult[c] =>
               /\ slot[c][1] \in {"value", "dropped"}
               /\ slot[c][1] = "value" => cresult'[c] = <<"Ok", slot[c][2]>>]_vars

\* C26 witness: a1 gave up its first call and waits for its second; the loop
\* has run the command of the first and a1's slot is still open: the reply
\* to the first call did not go to the second
C26_ReplyNotMisdelivered ==
  /\ ccalls["a1"] = 2 /\ alast["a1"] = 1
  /\ cstate["a1"] = "awaiting" /\ slot["a1"] = <<"open">>
  /\ actorCount >= 1

----------------------------------------------------------------------------
(* Further properties of the bounded channel (BackpressureSpec) *)

\* C27 as stated: the channel never holds more than 10 pairs
C27_AtMostTenPending == Len(mailbox) <= ChannelBuffer

\* C27 amended: the channel holds at most 10 pairs plus one for each sender
\* that is parked; a sender is parked at most once, so the bound is 10 plus
\* the number of handle clones
C27_BufferPlusSenders ==
  /\ Len(mailbox) <= ChannelBuffer + Len(parked)
  /\ \A i, j \in 1 .. Len(parked) : parked[i] = parked[j] => i = j
  /\ Len(parked) <= Cardinality(Handles)
  /\ Len(mailbox) <= ChannelBuffer + Cardinality(Handles)

\* C27 witness: both handles are parked and the channel holds 12 pairs
C27_TwelvePending ==
  /\ Len(mailbox) = ChannelBuffer + 2
  /\ Len(parked) = 2

----------------------------------------------------------------------------
(* Further properties of the workers and their breakers *)

\* C28 (WorkerSpec): the failure count of a worker is always between 0 and
\* 9, so every fetch is begun with a count below 10; the transient failure
\* that would make it 10 ends the worker
C28_CounterBelowThreshold ==
  /\ [](\A w \in Workers : breaker[w] \in 0 .. (BreakerThreshold - 1))
  /\ [][\A w \in Workers :
          /\ WorkerBeginFetch(w) => breaker'[w] < BreakerThreshold
          /\ ( /\ WorkerAttemptEnds(w, "transient")
               /\ breaker[w] + 1 >= BreakerThreshold ) =>
               /\ wstate'[w] = "Failed"
               /\ werr'[w] = TooManyTransientFailures]_vars

\* C28 witness: a worker is fetching with a count of 9
C28_FetchingAtNine ==
  \E w \in Workers :
    wstate[w] = "Running" /\ wpc[w] = "fetch" /\ breaker[w] = 9

\* C29 (ReplaceSpec): a worker begins with a count of 0 and makes its first
\* fetch with 0, whatever the count of the worker it replaced; and a step
\* that changes the count of one worker leaves the count of every other
\* worker as it was
C29_BreakerPerWorker ==
  /\ [](\A w \in Workers : wpc[w] = "start" => breaker[w] = 0)
  /\ [][\A w \in Workers :
          /\ (wpc[w] = "start" /\ wpc'[w] # "start") => breaker'[w] = 0
          /\ breaker'[w] # breaker[w] =>
               \A v \in Workers \ {w} : breaker'[v] = breaker[v]
          /\ \A o \in {"Ok"} \cup Sources :
               WorkerAttemptEnds(w, o) =>
                 \A v \in Workers \ {w} : breaker'[v] = breaker[v]]_vars

\* C29 witness: the worker that was replaced still holds a count of 2, and
\* its successor has begun its first fetch with a count of 0
C29_SuccessorStartsAtZero ==
  /\ nworkers = 2
  /\ wstate[1] = "Running" /\ aborted[1] # "no" /\ breaker[1] = 2
  /\ wstate[2] = "Running" /\ wpc[2] = "fetch" /\ breaker[2] = 0

----------------------------------------------------------------------------
(* Liveness of the supervisor (LiveSpec) *)

----------------------------------------------------------------------------
(* Boot under backpressure (BootSpec).  BootFlow::boot awaits start_many with
   the persisted registrations; main.rs spawns the supervisor before it calls
   boot, so the receiver is polled while the call is suspended.  The tasks of
   the runtime are scheduled fairly: a sender that can send does, and the
   supervisor's select! takes a pair that is ready.  MaxBoot pairs exceed the
   buffer by no more than the MaxRegs dispatches the model allows. *)

BootSpec ==
  /\ Init
  /\ [][BackpressureNext]_vars
  /\ WF_vars(nworkers < MaxRegs /\ Dispatch("suspended"))
  /\ \A h \in Handles : WF_vars(SendStep(h))

\* C31: a start_many call, of more pairs than the channel's buffer too,
\* eventually returns: the supervisor drains the channel while the call is
\* suspended
C31_BootReturns ==
  \A h \in Handles : (hstate[h] = "calling") ~> (hstate[h] = "idle")

\* h1's call of more pairs than the buffer has returned
C31_LongListSent ==
  /\ hstate["h1"] = "idle"
  /\ hpending["h1"] = <<>>
  /\ Len(SentBy("h1")) > ChannelBuffer

----------------------------------------------------------------------------
(* After the supervisor task has ended (Spec) *)

C33_SupervisionOutlivesHandles ==
  /\ [](supState # "Finished")
  /\ [](handles = {} /\ supState = "Running" /\ procState = "Up" =>
          \A w \in children : wstate[w] = "Failed" => ENABLED ObserveChild(w))
  /\ [][handles' = {} =>
          /\ handles # {} =>
               aborted' = aborted /\ wstate' = wstate /\ supState' = supState
          /\ handles = {} /\ mailbox = <<>> => aborted' = aborted
          /\ \A w \in Workers :
               /\ handles = {}
               /\ w \in children
               /\ w \notin children'
               /\ wstate[w] = "Failed"
               => supState' = "Errored" /\ supErr' = werr[w]]_vars

\* no handle is left, the supervisor runs, and a worker that nobody replaced
\* has ended with a fatal error
C33_FailedAfterHandlesGone ==
  /\ handles = {}
  /\ supState = "Running"
  /\ \E w \in children : wstate[w] = "Failed" /\ aborted[w] = "no"

----------------------------------------------------------------------------
(* The actor after its last handle (ActorSpec) *)

\* C34: the commands queued when the last handle is dropped are still run,
\* oldest first: with no handle left the loop cannot return while a command is
\* queued and can always run the next one, and the queue changes only by the
\* loop running its head (or by an operation's panic, which ends the task)
C34_DrainedAfterLastHandle ==
  /\ []((ahandles = {} /\ actorState = "Running" /\ amailbox # <<>>) =>
          ENABLED ActorServe /\ ~ENABLED ActorLoopEnds)
  /\ [][(ahandles = {} /\ amailbox' # amailbox) =>
          \/ actorState' = "Panicked"
          \/ /\ actorState' = "Running"
             /\ amailbox' = Tail(amailbox)
             /\ actorCount' = actorCount + 1
             /\ alast' = [alast EXCEPT ![Head(amailbox)[1]] = Head(amailbox)[2]]]_vars
  /\ [][(ahandles = {} /\ actorState = "Running" /\ actorState' = "Ended") =>
          amailbox = <<>> /\ \A c \in Callers : alast[c] = ccalls[c]]_vars

\* the last handle is gone and the commands of both callers are still queued
C34_QueuedAtLastDrop ==
  /\ ahandles = {}
  /\ actorState = "Running"
  /\ Len(amailbox) >= 2
  /\ \A c \in Callers : \E i \in 1 .. Len(amailbox) : amailbox[i][1] = c

----------------------------------------------------------------------------
(* What a worker fetches with and what it forwards (Spec) *)

\* C35: a worker keeps the account and the credential it was spawned with;
\* every request it makes carries that credential and every item it forwards
\* carries that account, from its first fetch to its end; so another
\* credential for an account is only ever used by another worker
C35_AccountIsolation ==
  /\ [](\A w \in Workers :
          /\ wused[w] \in {"-", wtoken[w]}
          /\ wtag[w] \in {"-", wacct[w]}
          /\ wstate[w] = "Unspawned" => wused[w] = "-" /\ wtag[w] = "-")
  /\ [][\A w \in Workers :
          /\ wstate[w] # "Unspawned" => wacct'[w] = wacct[w] /\ wtoken'[w] = wtoken[w]
          /\ wused'[w] # wused[w] => wused'[w] \in {"-", wtoken[w]}
          /\ wtag'[w] # wtag[w] => wtag'[w] \in {"-", wacct[w]}]_vars

\* K1 was registered with c1 and then with c2: the first worker is still
\* fetching with c1 while the second forwards what it fetched as K1
C35_TwoCredentialsTwoWorkers ==
  /\ wacct[1] = "K1" /\ wacct[2] = "K1"
  /\ wtoken[2] = "c2"
  /\ wused[1] = "c1"
  /\ wtag[2] = "K1"

----------------------------------------------------------------------------
(* Registrations, persisted and polled (RegisterSpec) *)

\* the pairs on their way to the supervisor
Submitted == mailbox \o hpending["h1"] \o hpending["h2"]

\* C36: a registration is persisted before the supervisor is asked to poll
\* it: every account that has a worker, or a pair on its way to the
\* supervisor, has a row in the registrations table; a register flow sends its
\* pair only from the point after db.register returned Ok; and the step in
\* which db.register fails sends nothing, after which the flow has returned
C36_PersistBeforePoll ==
  /\ [](/\ \A w \in Workers :
             wstate[w] # "Unspawned" => db_registrations[wacct[w]] # NoRow
        /\ \A i \in 1 .. Len(Submitted) : db_registrations[Submitted[i][1]] # NoRow)
  /\ [][(bootpc = "done" /\ bootpc' = "done" /\ Len(mailbox') > Len(mailbox)) =>
          \E f \in Flows :
            /\ rpc[f] = "start" /\ rpc'[f] = "idle"
            /\ mailbox' = Append(mailbox, <<racct[f], rtoken[f]>>)
            /\ db_registrations[racct[f]] # NoRow]_vars
  /\ [][\A f \in Flows :
          /\ (rpc[f] # "start" /\ rpc'[f] = "start") =>
               /\ rpc[f] = "persist"
               /\ db_registrations'[racct[f]] # NoRow
          /\ (rpc[f] = "persist" /\ rpc'[f] = "failed") =>
               UNCHANGED <<db_registrations, spawnerVars>>]_vars
  /\ [][\A f \in Flows :
          rpc[f] = "failed" => rpc'[f] \in {"failed", "persist", "idle"}]_vars

\* persisting K2 failed and the flow returned: K2 has no row, no pair and no
\* worker, while K1, persisted by the other flow, is polled
C36_FailedPersistNoWorker ==
  /\ rpc["f2"] = "failed" /\ racct["f2"] = "K2"
  /\ db_registrations["K2"] = NoRow
  /\ Submitted = <<>>
  /\ nworkers = 1 /\ wacct[1] = "K1" /\ wstate[1] = "Running"
  /\ db_registrations["K1"] # NoRow

\* C37 as stated: when db.register(K, c) returns Ok the table holds c for K,
\* so that registrations() gives back the credential registered last
C37_LastCredentialPersisted ==
  [][\A f \in Flows :
       (rpc[f] = "persist" /\ rpc'[f] = "start") =>
         db_registrations'[racct[f]] = rtoken[f]]_vars

----------------------------------------------------------------------------
(* The session store under concurrent requests (SessionSpec) *)

\* C38 as stated: an oauth state generated by begin lets at most one complete
\* request pass the state check, and a request passes the check only with the
\* state its session holds
C38_StateSingleUse ==
  /\ [](\A st \in OauthStates : passed[st] <= 1)
  /\ [][\A r \in Requests :
          (qpc[r] = "complete" /\ qpc'[r] = "register") =>
            qsession[r].oauth_state # NoState /\ qstate[r] = qsession[r].oauth_state]_vars

\* C39 as stated: once the stored session has an account_id it keeps one
C39_AccountStaysSet ==
  [][sessions.account_id # NoAccount => sessions'.account_id # NoAccount]_vars

====
